---- MODULE Spec2Model ----
(***************************************************************************)
(* A model of the jrpc2 JSON-RPC 2.0 HTTP server.                          *)
(*                                                                         *)
(*   Server lineage  : src/server.go   (Server, batch + proxy)             *)
(*   Service lineage : src/rpc.go      (Service, no batch, header checks)  *)
(*                                                                         *)
(* Strings the code inspects character by character (method names, URLs,  *)
(* the version literal) are sequences of one-character strings, so that    *)
(* strings.HasPrefix and strings.ToLower are computed, not assumed.        *)
(***************************************************************************)
EXTENDS Integers, Sequences, FiniteSets, TLC

VARIABLES
    Methods,    \* Server.Methods : map[string]Method            (server.go:197)
    req,        \* the HTTP request being / last served
    w,          \* the http.ResponseWriter of that request
    log,        \* handler invocations made while serving that request
    lineage,    \* which handler served it: "none", "Server" or "Service"
    gor,        \* goroutines running Server.Call concurrently    (server.go:251)
    crashed,    \* the Go runtime aborted the process (fatal map race,
                \* panic in a goroutine nobody recovers)
    hb,         \* Server.HandleBatch: position of its loop, reqs (server.go:230)
    batch,      \* Batch.Responses of the batch in progress     (server.go:156)
    wg,         \* the sync.WaitGroup counter                    (server.go:241)
    member,     \* the goroutine of each batch member            (server.go:251)
    servers,    \* context lineage: per route, the Server or MuxHandler
                \* made for it, its Methods and whether the route is bound
    pp          \* the last ParseParams call: its arguments, the calls it
                \* made to FromPositional and what it left   (server.go:112)

batchVars == <<hb, batch, wg, member>>
vars == <<Methods, req, w, log, lineage, gor, crashed, hb, batch, wg, member, servers, pp>>

----------------------------------------------------------------------------
(* Strings as character sequences *)

UpperChars == <<"A","B","C","D","E","F","G","H","I","J","K","L","M",
                "N","O","P","Q","R","S","T","U","V","W","X","Y","Z">>
LowerChars == <<"a","b","c","d","e","f","g","h","i","j","k","l","m",
                "n","o","p","q","r","s","t","u","v","w","x","y","z">>

LowerChar(c) ==
    IF \E i \in DOMAIN UpperChars : UpperChars[i] = c
    THEN LowerChars[CHOOSE i \in DOMAIN UpperChars : UpperChars[i] = c]
    ELSE c

\* strings.ToLower
ToLower(s) == [i \in DOMAIN s |-> LowerChar(s[i])]

\* strings.HasPrefix
HasPrefix(s, p) == Len(s) >= Len(p) /\ SubSeq(s, 1, Len(p)) = p

\* strings.EqualFold
EqualFold(s, t) == ToLower(s) = ToLower(t)

s_rpcdot   == <<"r","p","c",".">>
s_http     == <<"h","t","t","p",":","/","/">>
s_https    == <<"h","t","t","p","s",":","/","/">>
s_20       == <<"2",".","0">>
s_10       == <<"1",".","0">>
s_success  == <<"s","u","c","c","e","s","s">>
s_one      == <<"1">>
s_appjson  == <<"a","p","p","l","i","c","a","t","i","o","n","/","j","s","o","n">>
s_appJSON  == <<"A","p","p","l","i","c","a","t","i","o","n","/","J","S","O","N">>
s_text     == <<"t","e","x","t","/","p","l","a","i","n">>

n_register == <<"j","r","p","c","2",".","r","e","g","i","s","t","e","r">>
n_sum      == <<"s","u","m">>
n_update   == <<"u","p","d","a","t","e">>
n_subtract == <<"s","u","b","t","r","a","c","t">>
n_nope     == <<"n","o","p","e">>
n_add      == <<"a","d","d">>
n_rpcx     == <<"r","p","c",".","x">>
n_RPCx     == <<"R","P","C",".","x">>
n_Rpcx     == <<"R","p","c",".","x">>
n_broken   == <<"b","r","o","k","e","n">>
n_say      == <<"s","a","y">>
n_partial  == <<"p","a","r","t","i","a","l">>
s_hello    == <<"H","e","l","l","o">>
s_bob      == <<"b","o","b">>

u_a        == s_http \o <<"a">>
u_b        == s_https \o <<"b">>
u_ftp      == <<"f","t","p",":","/","/","c">>

----------------------------------------------------------------------------
(* JSON values on the wire, and the Go values encoding/json turns them into *)

\* t : "absent" (member not in the object), "null", "num", "str", "bool",
\*     "array", "object"; for a Go interface{} value also "nil".
\* n.f is a number (f = 0: integer-valued), s the text of a string.
J(t, n, f, s) == [t |-> t, n |-> n, f |-> f, s |-> s]

JAbsent   == J("absent", 0, 0, <<>>)
JNull     == J("null", 0, 0, <<>>)
JNum(n,f) == J("num", n, f, <<>>)
JStr(s)   == J("str", 0, 0, s)
JBool     == J("bool", 1, 0, <<>>)
JArray    == J("array", 0, 0, <<>>)
JObject   == J("object", 0, 0, <<>>)
GoNil     == J("nil", 0, 0, <<>>)

\* json.Unmarshal into an interface{} field: a missing member leaves the zero
\* value nil, and JSON null sets nil as well.
UnmarshalIface(j) == IF j.t \in {"absent", "null"} THEN GoNil ELSE j

\* json.Marshal of an interface{} field without omitempty: nil is null.
MarshalIface(g) == IF g.t = "nil" THEN JNull ELSE g

\* json.Marshal of an interface{} field tagged omitempty: nil is left out.
MarshalOmitEmpty(g) == IF g.t = "nil" THEN JAbsent ELSE g

\* Raw params (json.RawMessage): t is "absent", "null", "array", "object" or
\* "str"; a holds array elements, o the members of an object by key.
ParamKeys == {"x", "y", "name", "url", "message"}
NoMembers == [k \in ParamKeys |-> JAbsent]
PAbsent   == [t |-> "absent", a |-> <<>>, o |-> NoMembers]
PNull     == [t |-> "null", a |-> <<>>, o |-> NoMembers]
PArr(a)   == [t |-> "array", a |-> a, o |-> NoMembers]
PObj(o)   == [t |-> "object", a |-> <<>>, o |-> o]
PNameUrl(nm, u) == PObj([NoMembers EXCEPT !["name"] = nm, !["url"] = u])
PXY(x, y)  == PObj([NoMembers EXCEPT !["x"] = x, !["y"] = y])

----------------------------------------------------------------------------
(* Error objects (server.go:36-74) *)

ParseErrorCode     == 0 - 32700
InvalidRequestCode == 0 - 32600
MethodNotFoundCode == 0 - 32601
InvalidParamsCode  == 0 - 32602
InternalErrorCode  == 0 - 32603
MethodExistsCode   == 0 - 32000
URLSchemeErrorCode == 0 - 32001
\* Service lineage (constants.go)
NotImplementedCode == 0 - 32000
InvalidIDCode      == 0 - 32001
InvalidMethodCode  == 0 - 32002

\* *ErrorObject : nil, or a code/message/data triple ("" : data omitted)
NilErr == [nil |-> TRUE, code |-> 0, message |-> "", data |-> ""]
Err(c, m, d) == [nil |-> FALSE, code |-> c, message |-> m, data |-> d]

----------------------------------------------------------------------------
(* Parameter resolution (server.go:103-131) *)

\* The outcome of decoding params into a two-field parameter struct:
\* err (nil on success), panicked (a failed type assertion or nil dereference
\* unwinds the goroutine), v1/v2 the two pointer fields (GoNil : nil pointer).
PP(e, pn, a, b) == [err |-> e, panicked |-> pn, v1 |-> a, v2 |-> b]

\* One struct field of type *ty fed from object member j by json.Unmarshal.
FieldOk(j, ty) == j.t \in {"absent", "null", ty}
FieldVal(j, ty) == IF j.t = ty THEN j ELSE GoNil

\* json.Unmarshal(params, p) for a struct p with members k1, k2 of type *ty
NamedOk(params, k1, k2, ty) ==
    \/ params.t = "null"
    \/ /\ params.t = "object"
       /\ FieldOk(params.o[k1], ty)
       /\ FieldOk(params.o[k2], ty)

\* json.Unmarshal(params, &posParams) with posParams []interface{}
PositionalOk(params) == params.t \in {"array", "null"}

\* A FromPositional that fills the fields in the opposite order
FromPositionalSwapped(a, ty, msg) ==
    IF Len(a) # 2
    THEN PP(Err(InvalidParamsCode, "Invalid params", msg), FALSE, GoNil, GoNil)
    ELSE IF a[1].t # ty \/ a[2].t # ty
         THEN PP(NilErr, TRUE, GoNil, GoNil)
         ELSE PP(NilErr, FALSE, a[2], a[1])

\* Params.FromPositional as every parameter struct of the repository writes
\* it (server.go:277-288, server_test.go:23-34): a length check, then two
\* unchecked type assertions.
FromPositional(a, ty, msg) ==
    IF Len(a) # 2
    THEN PP(Err(InvalidParamsCode, "Invalid params", msg), FALSE, GoNil, GoNil)
    ELSE IF a[1].t # ty \/ a[2].t # ty
         THEN PP(NilErr, TRUE, GoNil, GoNil)
         ELSE PP(NilErr, FALSE, a[1], a[2])

\* ParseParams (server.go:112-131)
ParseParams(params, k1, k2, ty, msg) ==
    IF NamedOk(params, k1, k2, ty)
    THEN IF params.t = "object"
         THEN PP(NilErr, FALSE, FieldVal(params.o[k1], ty), FieldVal(params.o[k2], ty))
         ELSE PP(NilErr, FALSE, GoNil, GoNil)
    ELSE IF ~PositionalOk(params)
         THEN PP(Err(InvalidParamsCode, "Invalid params", "decode error"),
                 FALSE, GoNil, GoNil)
         ELSE FromPositional(params.a, ty, msg)

\* The calls ParseParams makes to p.FromPositional (server.go:124): one,
\* with the decoded elements, when the named decode failed and the array
\* decode succeeded; none otherwise.
ParseParamsCalls(params, k1, k2, ty) ==
    IF ~NamedOk(params, k1, k2, ty) /\ PositionalOk(params) THEN <<params.a>> ELSE <<>>

\* One ParseParams call: the raw params, the Params struct it was given
\* (members k1, k2 of type *ty), its FromPositional calls and its outcome.
ParseCall(params, k1, k2, ty, calls, out) ==
    [called |-> TRUE, params |-> params, k1 |-> k1, k2 |-> k2, ty |-> ty,
     calls |-> calls, out |-> out]
NoParseCall ==
    [ParseCall(PAbsent, "x", "y", "num", <<>>, PP(NilErr, FALSE, GoNil, GoNil))
        EXCEPT !.called = FALSE]

----------------------------------------------------------------------------
(* Local handlers and the registry *)

\* What a handler hands back: (result, *ErrorObject), or a panic.
Ret(r, e) == [result |-> r, err |-> e, panicked |-> FALSE]
Panic     == [result |-> GoNil, err |-> NilErr, panicked |-> TRUE]

\* Sum after ParseParams has filled p (server_test.go:43-51)
SumOf(p) ==
    IF p.panicked THEN Panic
    ELSE IF ~p.err.nil THEN Ret(GoNil, p.err)
    ELSE IF p.v1.t = "nil" \/ p.v2.t = "nil"
         THEN Ret(GoNil, Err(InvalidParamsCode, "Invalid params",
                             "exactly two integers are required"))
         ELSE Ret(JNum(p.v1.n + p.v2.n, 0), NilErr)

\* Sum (server_test.go:36-52)
Sum(params) ==
    SumOf(ParseParams(params, "x", "y", "num", "exactly two integers are required"))

\* The "update" / "foobar" handlers (server_test.go:240-241): return nil, nil
Update(params) == Ret(GoNil, NilErr)

\* Method (server.go:182-187): URL "" and Method nil are the zero values.
LocalMethod(fn) == [URL |-> <<>>, Method |-> fn]
ProxyMethod(u)  == [URL |-> u, Method |-> "nil"]

\* RegisterRPC up to its read of the registry (server.go:293-305): the decoded
\* name and url, an error to return, or a panic (*p.URL with p.URL nil at
\* line 299, *p.Name with p.Name nil at line 307).
Args(k, e, name, url) == [k |-> k, err |-> e, name |-> name, url |-> url]
RegisterRPCArgsOf(p) ==
    IF p.panicked THEN Args("panic", NilErr, <<>>, <<>>)
    ELSE IF ~p.err.nil THEN Args("err", p.err, <<>>, <<>>)
    ELSE IF p.v2.t = "nil" THEN Args("panic", NilErr, <<>>, <<>>)
    ELSE IF ~HasPrefix(p.v2.s, s_http) /\ ~HasPrefix(p.v2.s, s_https)
         THEN Args("err", Err(URLSchemeErrorCode, "URL scheme error",
                              "url scheme must match http?s://"), <<>>, <<>>)
    ELSE IF p.v1.t = "nil" THEN Args("panic", NilErr, <<>>, <<>>)
    ELSE Args("ok", NilErr, p.v1.s, p.v2.s)

RegisterRPCArgs(params) ==
    RegisterRPCArgsOf(ParseParams(params, "name", "url", "str",
                                  "register requires name and url parameters"))

\* s.Methods[name] = m
MapSet(methods, name, m) ==
    [n \in DOMAIN methods \cup {name} |-> IF n = name THEN m ELSE methods[n]]

\* A uniqueness check that never finds the name
RegisterRPCExistsNever(methods, name) == FALSE

\* RegisterRPC's uniqueness check (server.go:307-312)
RegisterRPCExists(methods, name) == name \in DOMAIN methods

\* RegisterRPC (server.go:292-317) run without interruption: what it returns
\* and the registry it leaves.
RegisterRPCWith(methods, a) ==
    IF a.k = "panic" THEN [ret |-> Panic, methods |-> methods]
    ELSE IF a.k = "err" THEN [ret |-> Ret(GoNil, a.err), methods |-> methods]
    ELSE IF RegisterRPCExists(methods, a.name)
         THEN [ret |-> Ret(GoNil, Err(MethodExistsCode, "Method exists", "")),
               methods |-> methods]
         ELSE [ret |-> Ret(JStr(s_success), NilErr),
               methods |-> MapSet(methods, a.name, ProxyMethod(a.url))]

\* A RegisterRPC that looks the name up before it looks at the URL
RegisterRPCExistsFirst(methods, params) ==
    IF /\ RegisterRPCArgs(params).k = "err"
       /\ RegisterRPCArgs(params).err.code = URLSchemeErrorCode
       /\ ParseParams(params, "name", "url", "str", "").v1.t = "str"
       /\ ParseParams(params, "name", "url", "str", "").v1.s \in DOMAIN methods
    THEN [ret |-> Ret(GoNil, Err(MethodExistsCode, "Method exists", "")),
          methods |-> methods]
    ELSE RegisterRPCWith(methods, RegisterRPCArgs(params))

\* Server.RegisterRPC (server.go:292-317)
RegisterRPC(methods, params) == RegisterRPCWith(methods, RegisterRPCArgs(params))

\* Server.Register (server.go:320-322)
RegisterMethod(methods, name, m) == MapSet(methods, name, m)

\* NewServer (server.go:468-479)
NewServer == [n \in {n_register} |-> LocalMethod("RegisterRPC")]

----------------------------------------------------------------------------
(* Requests and responses *)

\* A request object on the wire: its four members, each possibly absent.
WireReq(v, m, p, i) == [jsonrpc |-> v, method |-> m, params |-> p, id |-> i]
NoWireReq == WireReq(JAbsent, JAbsent, PAbsent, JAbsent)

\* An HTTP request.  body.k : "object" (one JSON object, members in o),
\* "array" (a JSON array), "scalar" (any other JSON value), "malformed".
\* mfirst: the method member precedes the jsonrpc member in the text (the
\* decoder reports the first type error it meets in document order).
\* items: the elements of an array body, each null, an object or another
\* JSON value.
Body(k, o, mfirst) == [k |-> k, o |-> o, mfirst |-> mfirst, items |-> <<>>]
BatchItem(k, o) == [k |-> k, o |-> o]
BatchBody(items) == [Body("array", NoWireReq, FALSE) EXCEPT !.items = items]
\* route is the URL path and ctx what r.Context() returns: a context.Context
\* carrying the value the middleware stored under "user" (nil: no context).
Ctx(user) == [nil |-> FALSE, user |-> user]
NilCtx == [nil |-> TRUE, user |-> <<>>]
HTTPReq(verb, ctype, accept, body) ==
    [verb |-> verb, ctype |-> ctype, accept |-> accept, body |-> body,
     route |-> "", ctx |-> Ctx(<<>>)]
CtxHTTPReq(route, ctx, body) ==
    [HTTPReq("POST", s_appjson, s_appjson, body) EXCEPT !.route = route, !.ctx = ctx]
NoReq == HTTPReq("", <<>>, <<>>, Body("none", NoWireReq, FALSE))

\* RequestObject of the Server lineage (server.go:77-88)
RequestObject(v, m, p, i) == [Jsonrpc |-> v, Method |-> m, Params |-> p, ID |-> i]

\* A response object as serialized by json.Marshal: a member that is not
\* written is JAbsent (error: NilErr).
WireResp(e, r, i, nl) == [jsonrpc |-> s_20, error |-> e, result |-> r, id |-> i, nl |-> nl]

\* The ResponseWriter: status 200 is what net/http sends when the handler
\* never calls WriteHeader; aborted: the handler panicked and net/http
\* dropped the connection without a response.
FreshWriter == [status |-> 200, header |-> {}, body |-> <<>>, aborted |-> FALSE]
Write(rw, chunk) == [rw EXCEPT !.body = Append(@, chunk)]
SetHeaders(rw, hs) == [rw EXCEPT !.header = @ \cup hs]
Abort(rw) == [rw EXCEPT !.aborted = TRUE]

\* Server.Headers of the servers under test (server_test.go:223-225)
ServerHeaders == {"X-Test-Header"}

\* NewResponse (server.go:136-151) with ResponseObject's tags
\* (server.go:97-100): error and result are omitempty, id is not.
NewResponse(result, errObj, id, nl) ==
    WireResp(errObj, MarshalOmitEmpty(result), MarshalIface(id), nl)

----------------------------------------------------------------------------
(* Server lineage: validation and dispatch *)

\* A validation that looks at the method before the version
ValidateRequestMethodFirst(r) ==
    IF r.Method.t # "str"
    THEN Err(InvalidRequestCode, "Invalid Request", "method name must be a string")
    ELSE IF r.Jsonrpc # s_20
    THEN Err(InvalidRequestCode, "Invalid Request",
             "jsonrpc request member must be exactly '2.0'")
    ELSE IF HasPrefix(r.Method.s, s_rpcdot)
    THEN Err(InvalidRequestCode, "Invalid Request",
             "method cannot match the pattern rpc.*")
    ELSE NilErr

\* Server.ValidateRequest (server.go:368-394)
ValidateRequest(r) ==
    IF r.Jsonrpc # s_20
    THEN Err(InvalidRequestCode, "Invalid Request",
             "jsonrpc request member must be exactly '2.0'")
    ELSE IF r.Method.t # "str"
    THEN Err(InvalidRequestCode, "Invalid Request", "method name must be a string")
    ELSE IF HasPrefix(r.Method.s, s_rpcdot)
    THEN Err(InvalidRequestCode, "Invalid Request",
             "method cannot match the pattern rpc.*")
    ELSE NilErr

\* What the remote end of a proxy call does: the POST fails ("transport"),
\* the body is not a response object ("garbage"), or a response object with
\* the given result and error members arrives ("resp").
Remote(k, r, e) == [k |-> k, result |-> r, err |-> e]
RemoteError == Err(0 - 32001, "Server error", "Mock error")
RemoteOutcomes ==
    { Remote("transport", GoNil, NilErr),
      Remote("garbage", GoNil, NilErr),
      Remote("resp", JNum(19, 0), NilErr),
      Remote("resp", GoNil, RemoteError),
      Remote("resp", GoNil, NilErr) }

\* A handler invocation: a local function or an outbound proxy POST, the
\* method name or URL it went to, what the remote end answered (proxy only)
\* and what the invocation returned.
Invocation(kind, fn, target, reply, ret) ==
    [kind |-> kind, fn |-> fn, target |-> target, reply |-> reply, ret |-> ret]
NoReply == Remote("none", GoNil, NilErr)

\* One registered local function applied to params; RegisterRPC is the only
\* one that touches the registry.
Invoke(fn, methods, params) ==
    CASE fn = "RegisterRPC" -> RegisterRPC(methods, params)
      [] fn = "Sum"         -> [ret |-> Sum(params), methods |-> methods]
      [] OTHER              -> [ret |-> Update(params), methods |-> methods]

\* A proxy branch that reports every remote error as its own Internal error
ProxyCallHidesRemoteError(remote) ==
    IF remote.k = "resp" /\ remote.result.t # "nil" THEN Ret(remote.result, NilErr)
    ELSE Ret(GoNil, Err(InternalErrorCode, "Internal error",
                        "Unable to call provided method"))

\* The proxy branch of Server.Call (server.go:410-451) given what the remote
\* end did; falls through to the final Internal error when the decoded
\* response has neither a result nor an error.
ProxyCall(remote) ==
    IF remote.k = "transport"
    THEN Ret(GoNil, Err(InternalErrorCode, "Internal error", "transport error"))
    ELSE IF remote.k = "garbage"
    THEN Ret(GoNil, Err(InternalErrorCode, "Internal error", "decode error"))
    ELSE IF remote.result.t # "nil" THEN Ret(remote.result, NilErr)
    ELSE IF ~remote.err.nil THEN Ret(GoNil, remote.err)
    ELSE Ret(GoNil, Err(InternalErrorCode, "Internal error",
                        "Unable to call provided method"))

\* A lookup that reports a missing name as an uncallable entry
CallRouteMissUncallable(methods, name) ==
    IF name \notin DOMAIN methods THEN "uncallable"
    ELSE IF methods[name].Method # "nil" THEN "local"
    ELSE IF methods[name].URL # <<>> THEN "proxy"
    ELSE "uncallable"

\* Where Server.Call sends a name (server.go:400-410)
CallRoute(methods, name) ==
    IF name \notin DOMAIN methods THEN "notfound"
    ELSE IF methods[name].Method # "nil" THEN "local"
    ELSE IF methods[name].URL # <<>> THEN "proxy"
    ELSE "uncallable"

\* What Server.Call hands back: the returned pair, the registry afterwards
\* and the invocations made.
CallOut(ret, methods, lg) == [ret |-> ret, methods |-> methods, log |-> lg]

\* The local branch (server.go:407-409), out being what the function did
LocalCall(fn, name, out) ==
    CallOut(out.ret, out.methods, <<Invocation("local", fn, name, NoReply, out.ret)>>)

\* The proxy branch (server.go:410-451), ret being what it produced from
\* the remote end's answer
ProxiedCall(methods, url, remote, ret) ==
    CallOut(ret, methods, <<Invocation("proxy", "nil", url, remote, ret)>>)

\* Server.Call (server.go:399-458) once the lookup has chosen the route
CallVia(route, methods, name, params, remote) ==
    CASE route = "notfound" ->
           CallOut(Ret(GoNil, Err(MethodNotFoundCode, "Method not found", "")),
                   methods, <<>>)
      [] route = "local" ->
           LocalCall(methods[name].Method, name,
                     Invoke(methods[name].Method, methods, params))
      [] route = "proxy" ->
           ProxiedCall(methods, methods[name].URL, remote, ProxyCall(remote))
      [] OTHER ->
           CallOut(Ret(GoNil, Err(InternalErrorCode, "Internal error",
                                  "Unable to call provided method")),
                   methods, <<>>)

\* Server.Call (server.go:399-458)
Call(methods, name, params, remote) ==
    CallVia(CallRoute(methods, name.s), methods, name.s, params, remote)

\* Whether HandleRequest writes the successful result (server.go:223)
WritesResult(r) == r.ID.t # "nil"

\* What a handler run leaves: the writer, the registry, the invocations
Served(rw, methods, lg) == [w |-> rw, methods |-> methods, log |-> lg]

\* The tail of Server.HandleRequest (server.go:220-225), c being what
\* Server.Call returned
Respond(rw, r, c) ==
    IF c.ret.panicked THEN Served(Abort(rw), c.methods, c.log)
    ELSE IF ~c.ret.err.nil
    THEN Served(Write(rw, NewResponse(GoNil, c.ret.err, r.ID, TRUE)), c.methods, c.log)
    ELSE IF WritesResult(r)
    THEN Served(Write(rw, NewResponse(c.ret.result, NilErr, r.ID, TRUE)), c.methods, c.log)
    ELSE Served(rw, c.methods, c.log)

\* Server.HandleRequest after ValidateRequest returned verr (server.go:215-226)
HandleValidated(rw, methods, r, remote, verr) ==
    IF ~verr.nil
    THEN Served(Write(rw, NewResponse(GoNil, verr, r.ID, TRUE)), methods, <<>>)
    ELSE Respond(rw, r, Call(methods, r.Method, r.Params, remote))

\* Server.HandleRequest (server.go:210-226)
HandleRequest(rw, methods, r, remote) ==
    HandleValidated(SetHeaders(rw, {"Content-Type"} \cup ServerHeaders),
                    methods, r, remote, ValidateRequest(r))

\* A decoder that takes a jsonrpc member of any JSON type
ServerDecodesAnyVersion(body) == body.k = "object"

\* json.Unmarshal(data, req) into the Server's RequestObject (server.go:339):
\* it fails unless the body is one object whose jsonrpc member, if any, is a
\* string or null; method and id are interface{} and take any value.
ServerDecodes(body) ==
    /\ body.k = "object"
    /\ body.o.jsonrpc.t \in {"absent", "null", "str"}

ServerDecode(body) ==
    RequestObject(IF body.o.jsonrpc.t = "str" THEN body.o.jsonrpc.s ELSE <<>>,
                  UnmarshalIface(body.o.method),
                  body.o.params,
                  UnmarshalIface(body.o.id))

\* Server.ParseRequest and Server.rpcHandler (server.go:202-207, 326-365) for
\* a body that is not a JSON array: a body that does not decode as a request
\* object does not decode as a batch either, and rpcHandler writes the
\* Parse error with id null.
RpcHandler(methods, body, remote) ==
    IF ServerDecodes(body)
    THEN HandleRequest(FreshWriter, methods, ServerDecode(body), remote)
    ELSE Served(Write(FreshWriter,
                      NewResponse(GoNil, Err(ParseErrorCode, "Parse error", "decode error"),
                                  GoNil, TRUE)),
                methods, <<>>)

----------------------------------------------------------------------------
(* Service lineage (rpc.go) *)

\* GetPositionalFloat64Params, called at README.md:331: decodes a
\* positional params array into float64 values, or fails with Invalid params.
GetPositionalFloat64Params(params) ==
    IF \A k \in DOMAIN params.a : params.a[k].t = "num"
    THEN [vals |-> params.a, err |-> NilErr]
    ELSE [vals |-> <<>>, err |-> Err(InvalidParamsCode, "Invalid params", "decode error")]

\* Subtract of the Service lineage's tests (README.md:311-364).  A missing X
\* or Y is dereferenced as a nil pointer at README.md:355.
ServiceSubtract(params) ==
    LET named == NamedOk(params, "x", "y", "num")
        pos   == GetPositionalFloat64Params(params)
        x == IF named
             THEN (IF params.t = "object" THEN FieldVal(params.o["x"], "num") ELSE GoNil)
             ELSE pos.vals[1]
        y == IF named
             THEN (IF params.t = "object" THEN FieldVal(params.o["y"], "num") ELSE GoNil)
             ELSE pos.vals[2]
    IN  IF ~named /\ params.t # "array"
        THEN Ret(GoNil, Err(ParseErrorCode, "Parse error", "decode error"))
        ELSE IF ~named /\ ~pos.err.nil THEN Ret(GoNil, pos.err)
        ELSE IF ~named /\ Len(pos.vals) # 2
        THEN Ret(GoNil, Err(InvalidParamsCode, "Invalid params",
                            "exactly two integers are required"))
        ELSE IF x.t = "nil" \/ y.t = "nil" THEN Panic
        ELSE IF x.n = 999 /\ y.n = 999
        THEN Ret(GoNil, Err(0 - 320099, "Custom error", "mock server error"))
        ELSE Ret(JNum(x.n - y.n, 0), NilErr)

\* Service.Methods as the Service lineage's tests set it up
\* (README.md:401-402), plus an entry whose Method is nil (rpc.go:40).
ServiceMethods ==
    [n \in {n_update, n_subtract, n_broken, n_partial} |->
        IF n = n_update THEN LocalMethod("Update")
        ELSE IF n = n_subtract THEN LocalMethod("Subtract")
        ELSE IF n = n_partial THEN LocalMethod("Partial")
        ELSE LocalMethod("nil")]

\* Service.Headers (README.md:392-398), by name
ServiceHeaders == {"Server", "Access-Control-Allow-Origin"}

\* A handler of the type Method.Method admits (part_002:51-56): it returns
\* a value and an error object together.
Partial(params) == Ret(JNum(7, 0), Err(0 - 32050, "Partial failure", ""))

ServiceInvoke(fn, params) ==
    IF fn = "Subtract" THEN ServiceSubtract(params)
    ELSE IF fn = "Partial" THEN Partial(params)
    ELSE Update(params)

\* Service.Call (rpc.go:19-49)
ServiceCall(methods, name, params) ==
    IF HasPrefix(ToLower(name), s_rpcdot)
    THEN [ret |-> Ret(GoNil, Err(InvalidRequestCode, "Invalid Request",
                                 "method cannot match the pattern rpc.*")),
          log |-> <<>>]
    ELSE IF name \notin DOMAIN methods
    THEN [ret |-> Ret(GoNil, Err(MethodNotFoundCode, "Method not found", "")),
          log |-> <<>>]
    ELSE IF methods[name].Method = "nil"
    THEN [ret |-> Ret(GoNil, Err(InternalErrorCode, "Internal error",
                                 "unable to call provided method")),
          log |-> <<>>]
    ELSE [ret |-> ServiceInvoke(methods[name].Method, params),
          log |-> <<Invocation("local", methods[name].Method, name, NoReply,
                               ServiceInvoke(methods[name].Method, params))>>]

\* json.Unmarshal(data, &reqObj) into the Service's RequestObject
\* (part_002:18-30; jsonrpc and method are Go strings): k = "none" when it
\* succeeds, "syntax" for malformed JSON, "type" for an UnmarshalTypeError
\* with its Value (the JSON type met) and Field.
DecodeErr(k, value, field) == [k |-> k, value |-> value, field |-> field]
StringFieldOk(j) == j.t \in {"absent", "null", "str"}
ServiceDecodeError(body) ==
    IF body.k = "malformed" THEN DecodeErr("syntax", "", "")
    ELSE IF body.k = "array" THEN DecodeErr("type", "array", "")
    ELSE IF body.k = "scalar" THEN DecodeErr("type", "number", "")
    ELSE LET vbad == ~StringFieldOk(body.o.jsonrpc)
             mbad == ~StringFieldOk(body.o.method)
         IN  IF mbad /\ (body.mfirst \/ ~vbad)
             THEN DecodeErr("type", body.o.method.t, "method")
             ELSE IF vbad THEN DecodeErr("type", body.o.jsonrpc.t, "jsonrpc")
             ELSE DecodeErr("none", "", "")

\* A decode error that is never taken for a batch
IsBatchErrorNever(de) == FALSE

\* The UnmarshalTypeError whose Value is "array" (rpc.go:140-151)
IsBatchError(de) == de.k = "type" /\ de.value = "array"

\* An id check that lets every number through
ServiceIDOkAnyNumber(id) ==
    \/ id.t = "num"
    \/ id.t = "str"
    \/ id.t = "nil"

\* The id check of Service.Do (rpc.go:182-203)
ServiceIDOk(id) ==
    \/ id.t = "num" /\ id.f = 0
    \/ id.t = "str"
    \/ id.t = "nil"

\* *ResponseObject of the Service lineage (part_002:33-47).  ID is unset (a
\* nil interface) until rpc.go:206 stores a pointer to the request's id.
RespObj(e, r, idset, id, notif, status) ==
    [Error |-> e, Result |-> r, IDSet |-> idset, ID |-> id,
     IsNotification |-> notif, HTTPResponseStatusCode |-> status]

DoOut(ro, hdr, lg, pn) == [resp |-> ro, header |-> hdr, log |-> lg, panicked |-> pn]
DoError(e, status, hdr) ==
    DoOut(RespObj(e, GoNil, FALSE, GoNil, FALSE, status), hdr, <<>>, FALSE)

\* Whether Service.Do flags the request as a notification (rpc.go:209)
ServiceIsNotification(id) == id.t = "nil"

\* A verb check that lets every verb through
VerbAllowedAlways(verb) == TRUE

\* r.Method != "POST" (rpc.go:74)
VerbAllowed(verb) == verb = "POST"

\* A Content-Type check that lets every media type through
ContentTypeOkAlways(ctype) == TRUE

\* strings.EqualFold(r.Header.Get("Content-Type"), "application/json")
\* (rpc.go:91)
ContentTypeOk(ctype) == EqualFold(ctype, s_appjson)

\* An Accept check that lets every media type through
AcceptOkAlways(accept) == TRUE

\* strings.EqualFold(r.Header.Get("Accept"), "application/json") (rpc.go:104)
AcceptOk(accept) == EqualFold(accept, s_appjson)

\* Service.Do (rpc.go:52-224)
ServiceDo(methods, r) ==
    LET hdr == ServiceHeaders \cup {"Content-Type"}
        de  == ServiceDecodeError(r.body)
        id  == UnmarshalIface(r.body.o.id)
        ver == IF r.body.o.jsonrpc.t = "str" THEN r.body.o.jsonrpc.s ELSE <<>>
        mth == IF r.body.o.method.t = "str" THEN r.body.o.method.s ELSE <<>>
    IN  IF ~VerbAllowed(r.verb)
        THEN DoError(Err(InvalidRequestCode, "Invalid Request",
                         "request method must be of POST type"),
                     405, hdr \cup {"Allow"})
        ELSE IF ~ContentTypeOk(r.ctype)
        THEN DoError(Err(ParseErrorCode, "Parse error",
                         "Content-Type header must be set to 'application/json'"),
                     415, hdr)
        ELSE IF ~AcceptOk(r.accept)
        THEN DoError(Err(ParseErrorCode, "Parse error",
                         "Accept header must be set to 'application/json'"),
                     406, hdr)
        ELSE IF IsBatchError(de)
        THEN DoError(Err(NotImplementedCode, "Not implemented",
                         "batch requests not supported"), 200, hdr)
        ELSE IF de.k = "type" /\ de.field = "method"
        THEN DoError(Err(InvalidMethodCode, "Invalid method",
                         "method data type must be string"), 200, hdr)
        ELSE IF de.k # "none"
        THEN DoError(Err(ParseErrorCode, "Parse error", "decode error"), 200, hdr)
        ELSE IF ver # s_20
        THEN DoError(Err(InvalidRequestCode, "Invalid Request",
                         "jsonrpc request member must be exactly '2.0'"), 200, hdr)
        ELSE IF ~ServiceIDOk(id)
        THEN DoError(Err(InvalidIDCode, "Invalid ID",
                         "ID must be one of string, number or undefined"), 200, hdr)
        ELSE LET c == ServiceCall(methods, mth, r.body.o.params)
             IN  DoOut(RespObj(c.ret.err, c.ret.result, TRUE, id,
                               ServiceIsNotification(id), 200),
                       hdr, c.log, c.ret.panicked)

\* json.Marshal(respObj) of the Service's ResponseObject (part_002:33-47):
\* error, result and id are all omitempty; id holds a pointer once set, so
\* it is written (null for a nil id) exactly when it was set.
ServiceMarshal(ro) ==
    WireResp(ro.Error, MarshalOmitEmpty(ro.Result),
             IF ro.IDSet THEN MarshalIface(ro.ID) ELSE JAbsent, FALSE)

\* Service.RPCHandler (rpc.go:227-253)
RPCHandler(methods, r) ==
    LET d  == ServiceDo(methods, r)
        w0 == SetHeaders(FreshWriter, d.header)
    IN  IF d.panicked THEN [w |-> Abort(w0), log |-> d.log]
        ELSE IF d.resp.IsNotification
        THEN [w |-> [w0 EXCEPT !.status = 204], log |-> d.log]
        ELSE [w |-> Write([w0 EXCEPT !.status = d.resp.HTTPResponseStatusCode],
                          ServiceMarshal(d.resp)),
              log |-> d.log]

----------------------------------------------------------------------------
(* Server lineage: batches (server.go:153-179, 230-265) *)

\* A *RequestObject element of reqs; a null array element decodes to nil.
Ptr(r) == [nil |-> FALSE, r |-> r]
NilPtr == [nil |-> TRUE, r |-> RequestObject(<<>>, GoNil, PAbsent, GoNil)]

\* json.Unmarshal(data, &reqs) with reqs []*RequestObject (server.go:351)
ItemDecodes(item) ==
    \/ item.k = "null"
    \/ item.k = "object" /\ ServerDecodes(Body("object", item.o, FALSE))
BatchDecodes(body) ==
    /\ body.k = "array"
    /\ \A i \in DOMAIN body.items : ItemDecodes(body.items[i])
BatchDecode(body) ==
    [i \in DOMAIN body.items |->
        IF body.items[i].k = "null" THEN NilPtr
        ELSE Ptr(ServerDecode(Body("object", body.items[i].o, FALSE)))]

\* One element of Batch.Responses: the bytes NewResponse made, and the
\* member of the batch they answer.
Entry(k, resp) == [from |-> k, resp |-> resp]
NoEntry == Entry(0, NewResponse(GoNil, NilErr, GoNil, FALSE))

\* An AddResponse that puts the response in front
AddResponseInFront(responses, resp) == <<resp>> \o responses

\* Batch.AddResponse (server.go:160-162) on the slice value it read
AddResponse(responses, resp) == Append(responses, resp)

\* Batch.MakeResponse (server.go:165-179): the entries in slice order between
\* brackets, newline-terminated
MakeResponse(responses) == [array |-> responses, nl |-> TRUE]

\* The empty-batch check of HandleBatch (server.go:231-239); there is no
\* return after the write.
BatchOpen(rw, reqs) ==
    IF Len(reqs) < 1
    THEN Write(SetHeaders(rw, {"Content-Type"}),
               NewResponse(GoNil, Err(InvalidRequestCode, "Invalid Request",
                                      "Batch must contain at least one request"),
                           GoNil, TRUE))
    ELSE SetHeaders(rw, {"Content-Type"})

\* A wait that returns at once
WaitReturnsAtOnce(counter) == TRUE

\* wg.Wait() (server.go:261) returns when the counter is zero
WaitReturns(counter) == counter = 0

\* A final check that always writes the array
BatchNonEmptyAlways(responses) == TRUE

\* len(batch.Responses) > 0 (server.go:262)
BatchNonEmpty(responses) == Len(responses) > 0

\* The end of HandleBatch (server.go:262-264)
BatchClose(rw, responses) ==
    IF BatchNonEmpty(responses) THEN Write(rw, MakeResponse(responses)) ELSE rw

\* HandleBatch's own goroutine.  pc: "idle", "loop" (at the head of the for
\* loop with index i, or at wg.Wait once i is past the end), "write" (inside
\* AddResponse for a validation failure, having read the slice into snap),
\* "done" (returned), "aborted" (panicked; net/http recovered it).
HB(pc, i, reqs, snap, resp) ==
    [pc |-> pc, i |-> i, reqs |-> reqs, snap |-> snap, resp |-> resp]
IdleBatch == HB("idle", 0, <<>>, <<>>, NoEntry)

\* The goroutine of one member (server.go:251-258).  pc: "none", "call"
\* (before s.Call), "read" (before AddResponse reads the slice), "write"
\* (before it stores the appended slice), "exit" (before the deferred
\* wg.Done), "done".
Member(pc, snap, resp) == [pc |-> pc, snap |-> snap, resp |-> resp]
IdleMember == Member("none", <<>>, NoEntry)

\* What the goroutine does with what s.Call returned (server.go:253-257)
MemberAfterCall(k, r, ret) ==
    IF ~ret.err.nil
    THEN Member("read", <<>>, Entry(k, NewResponse(GoNil, ret.err, r.ID, FALSE)))
    ELSE IF WritesResult(r)
    THEN Member("read", <<>>, Entry(k, NewResponse(ret.result, NilErr, r.ID, FALSE)))
    ELSE Member("exit", <<>>, NoEntry)

----------------------------------------------------------------------------
(* Earliest lineage (part_001): the registry maps a name to a function and   *)
(* HandleBatch serves the members one after the other                        *)

\* Server.Call of part_001 (part_001:318-327): look the name up, call the
\* function
EarliestCall(methods, name, params) ==
    IF name.s \notin DOMAIN methods
    THEN Ret(GoNil, Err(MethodNotFoundCode, "Method not found", ""))
    ELSE Invoke(methods[name.s].Method, methods, params).ret

\* What the loop of part_001's HandleBatch has made: the responses added so
\* far, or a panic that unwound it
Sequential(aborted, responses) == [aborted |-> aborted, responses |-> responses]

\* One turn of that loop (part_001:221-231) for member i, ret being what
\* s.Call returned for a member that passed validation
SequentialStep(responses, i, r, verr, ret) ==
    IF ~verr.nil
    THEN AddResponse(responses, Entry(i, NewResponse(GoNil, verr, r.ID, FALSE)))
    ELSE IF ~ret.err.nil
    THEN AddResponse(responses, Entry(i, NewResponse(GoNil, ret.err, r.ID, FALSE)))
    ELSE IF r.ID.t # "nil"
    THEN AddResponse(responses, Entry(i, NewResponse(ret.result, NilErr, r.ID, FALSE)))
    ELSE responses

\* Server.HandleBatch of part_001 (part_001:207-236) from member i on
RECURSIVE HandleBatchFrom(_, _, _, _)
HandleBatchFrom(methods, reqs, i, responses) ==
    IF i > Len(reqs) THEN Sequential(FALSE, responses)
    ELSE IF reqs[i].nil THEN Sequential(TRUE, responses)
    ELSE IF /\ ValidateRequest(reqs[i].r).nil
            /\ EarliestCall(methods, reqs[i].r.Method, reqs[i].r.Params).panicked
    THEN Sequential(TRUE, responses)
    ELSE HandleBatchFrom(methods, reqs, i + 1,
             SequentialStep(responses, i, reqs[i].r, ValidateRequest(reqs[i].r),
                 IF ValidateRequest(reqs[i].r).nil
                 THEN EarliestCall(methods, reqs[i].r.Method, reqs[i].r.Params)
                 ELSE Ret(GoNil, NilErr)))

\* Server.HandleBatch of part_001 on a batch that is not empty: the entries
\* of the array it writes, in order
HandleBatchSequential(methods, reqs) == HandleBatchFrom(methods, reqs, 1, <<>>)

----------------------------------------------------------------------------
(* Context lineage (part_000): handlers take a context.Context, methods are  *)
(* MethodWithContext values, and a MuxServer serves one MuxHandler per route *)

\* MethodWithContext (part_000:193-198).  Wrapped: Method is the closure that
\* Server.Register and MuxHandler.Register build around a Method's function
\* fn; the closure itself is never nil.
CtxMethod(url, fn, wrapped) == [URL |-> url, Method |-> fn, Wrapped |-> wrapped]

\* Server.Register (part_000:333-340) and MuxHandler.Register
\* (part_000:559-566), m being a Method
CtxRegisterMethod(methods, name, m) ==
    MapSet(methods, name, CtxMethod(m.URL, m.Method, TRUE))

\* Server.RegisterWithContext (part_000:342-344) and
\* MuxHandler.RegisterWithContext (part_000:569-571)
CtxRegisterWithContextMethod(methods, name, m) == MapSet(methods, name, m)

\* NewServer (part_000:536-550)
CtxNewServer == [n \in {n_register} |-> CtxMethod(<<>>, "RegisterRPC", FALSE)]

\* NewMuxHandler (part_000:574-576): an empty map
NewMuxHandler == [n \in {} |-> CtxMethod(<<>>, "nil", FALSE)]

\* One route: kind "none", "Server" (made by NewServer) or "Mux" (a
\* MuxHandler added to the MuxServer); bound once Prepare has registered the
\* rpcHandler for the route.
RouteState(kind, methods, bound) == [kind |-> kind, Methods |-> methods, bound |-> bound]
NoRoute == RouteState("none", NewMuxHandler, FALSE)

\* MuxServer.Prepare (part_000:589-602): every handler's route is served by
\* a Server made around the handler's own Methods map.
MuxPrepared(srv) ==
    [r \in DOMAIN srv |->
        IF srv[r].kind = "Mux" THEN RouteState("Mux", srv[r].Methods, TRUE) ELSE srv[r]]

\* SayParams decoded by ParseParams (server_test.go:98-108, part_000:115-134):
\* Message is a plain string, FromPositional wants exactly one element and
\* asserts it to be a string.
SayNamedOk(params) ==
    \/ params.t = "null"
    \/ params.t = "object" /\ params.o["message"].t \in {"absent", "null", "str"}
SayParseParams(params) ==
    IF SayNamedOk(params)
    THEN PP(NilErr, FALSE,
            IF params.t = "object" /\ params.o["message"].t = "str"
            THEN params.o["message"] ELSE JStr(<<>>),
            GoNil)
    ELSE IF ~PositionalOk(params)
    THEN PP(Err(InvalidParamsCode, "Invalid params", "decode error"), FALSE, GoNil, GoNil)
    ELSE IF Len(params.a) # 1
    THEN PP(Err(InvalidParamsCode, "Invalid params", "exactly one argument is required"),
            FALSE, GoNil, GoNil)
    ELSE IF params.a[1].t # "str" THEN PP(NilErr, TRUE, GoNil, GoNil)
    ELSE PP(NilErr, FALSE, params.a[1], GoNil)

\* Say once ParseParams has filled p (server_test.go:118-124)
SayOf(ctx, p) ==
    IF p.panicked THEN Panic
    ELSE IF ~p.err.nil THEN Ret(GoNil, p.err)
    ELSE Ret(JStr(p.v1.s \o <<" ">> \o ctx.user \o <<"!">>), NilErr)

\* Say (server_test.go:110-125): ctx.Value on a nil context panics.
Say(ctx, params) ==
    IF ctx.nil THEN Panic ELSE SayOf(ctx, SayParseParams(params))

\* RegisterRPC of the context lineage (part_000:305-330)
CtxRegisterRPCWith(methods, a) ==
    IF a.k = "panic" THEN [ret |-> Panic, methods |-> methods]
    ELSE IF a.k = "err" THEN [ret |-> Ret(GoNil, a.err), methods |-> methods]
    ELSE IF a.name \in DOMAIN methods
         THEN [ret |-> Ret(GoNil, Err(MethodExistsCode, "Method exists", "")),
               methods |-> methods]
         ELSE [ret |-> Ret(JStr(s_success), NilErr),
               methods |-> MapSet(methods, a.name, CtxMethod(a.url, "nil", FALSE))]

\* The function under a registry entry applied to ctx and params.  A closure
\* made by Register calls method.Method(params): a nil function there is a
\* nil dereference.
CtxInvoke(m, ctx, methods, params) ==
    CASE m.Wrapped /\ m.Method = "nil" -> [ret |-> Panic, methods |-> methods]
      [] m.Wrapped /\ m.Method = "Sum" -> [ret |-> Sum(params), methods |-> methods]
      [] m.Wrapped -> [ret |-> Update(params), methods |-> methods]
      [] m.Method = "RegisterRPC" -> CtxRegisterRPCWith(methods, RegisterRPCArgs(params))
      [] OTHER -> [ret |-> Say(ctx, params), methods |-> methods]

\* The proxy branch of Server.Call (part_000:433-467): the error of
\* dec.Decode is dropped, so a body that is no response object leaves resp
\* empty and the call falls through to the final Internal error.
CtxProxyCall(remote) ==
    IF remote.k = "transport"
    THEN Ret(GoNil, Err(InternalErrorCode, "Internal error", "transport error"))
    ELSE IF remote.k = "resp" /\ remote.result.t # "nil" THEN Ret(remote.result, NilErr)
    ELSE IF remote.k = "resp" /\ ~remote.err.nil THEN Ret(GoNil, remote.err)
    ELSE Ret(GoNil, Err(InternalErrorCode, "Internal error",
                        "Unable to call provided method"))

\* Where Server.Call sends a name (part_000:423-433)
CtxCallRoute(methods, name) ==
    IF name \notin DOMAIN methods THEN "notfound"
    ELSE IF methods[name].Wrapped \/ methods[name].Method # "nil" THEN "local"
    ELSE IF methods[name].URL # <<>> THEN "proxy"
    ELSE "uncallable"

\* A handler invocation of the context lineage, with the context it received
CtxInvocation(kind, fn, target, ctx, reply, ret) ==
    [kind |-> kind, fn |-> fn, target |-> target, ctx |-> ctx, reply |-> reply,
     ret |-> ret]

CtxLocalCall(m, name, ctx, out) ==
    CallOut(out.ret, out.methods,
            <<CtxInvocation("local", m.Method, name, ctx, NoReply, out.ret)>>)

CtxProxiedCall(methods, url, ctx, remote, ret) ==
    CallOut(ret, methods, <<CtxInvocation("proxy", "nil", url, ctx, remote, ret)>>)

\* Server.Call (part_000:422-474) once the lookup has chosen the route
CtxCallVia(route, ctx, methods, name, params, remote) ==
    CASE route = "notfound" ->
           CallOut(Ret(GoNil, Err(MethodNotFoundCode, "Method not found", "")),
                   methods, <<>>)
      [] route = "local" ->
           CtxLocalCall(methods[name], name, ctx,
                        CtxInvoke(methods[name], ctx, methods, params))
      [] route = "proxy" ->
           CtxProxiedCall(methods, methods[name].URL, ctx, remote, CtxProxyCall(remote))
      [] OTHER ->
           CallOut(Ret(GoNil, Err(InternalErrorCode, "Internal error",
                                  "Unable to call provided method")),
                   methods, <<>>)

\* Server.Call (part_000:422-474)
CtxCall(ctx, methods, name, params, remote) ==
    CtxCallVia(CtxCallRoute(methods, name.s), ctx, methods, name.s, params, remote)

\* Server.HandleRequest (part_000:227-239); ctx is req.ctx
CtxHandleValidated(rw, ctx, methods, r, remote, verr) ==
    IF ~verr.nil
    THEN Served(Write(rw, NewResponse(GoNil, verr, r.ID, TRUE)), methods, <<>>)
    ELSE Respond(rw, r, CtxCall(ctx, methods, r.Method, r.Params, remote))

CtxHandleRequest(rw, ctx, methods, r, remote) ==
    CtxHandleValidated(rw, ctx, methods, r, remote, ValidateRequest(r))

\* Server.rpcHandler and Server.ParseRequest (part_000:215-224, 348-388) for
\* a body that is not a JSON array; req.ctx = r.Context() at line 368.
CtxRpcHandler(methods, ctx, body, remote) ==
    IF ServerDecodes(body)
    THEN CtxHandleRequest(SetHeaders(FreshWriter, {"Content-Type"} \cup ServerHeaders),
                          ctx, methods, ServerDecode(body), remote)
    ELSE Served(Write(SetHeaders(FreshWriter, {"Content-Type"} \cup ServerHeaders),
                      NewResponse(GoNil, Err(ParseErrorCode, "Parse error", "decode error"),
                                  GoNil, TRUE)),
                methods, <<>>)

----------------------------------------------------------------------------
(* Inputs *)

Versions == {JStr(s_20), JStr(s_10), JAbsent, JNum(2, 0)}

Ids == {JAbsent, JNull, JNum(1, 0), JNum(1, 5), JStr(s_one), JArray, JObject, JBool}

ServerNames == {n_register, n_sum, n_add, n_nope, n_rpcx, n_RPCx}
ServerMethodVals == {JStr(n) : n \in ServerNames} \cup {JNum(1, 0), JAbsent}

RegisterParams ==
    { PArr(<<JStr(n_add), JStr(u_a)>>),
      PArr(<<JStr(n_add), JStr(u_b)>>),
      PArr(<<JStr(n_add), JStr(u_ftp)>>),
      PNameUrl(JStr(n_sum), JStr(u_a)),
      PNameUrl(JStr(n_add), JAbsent),
      PArr(<<JStr(n_add), JNum(1, 0)>>),
      PArr(<<JStr(n_rpcx), JStr(u_a)>>) }

SumParams ==
    { PAbsent,
      PArr(<<JNum(1, 0), JNum(2, 0)>>),
      PArr(<<JNum(1, 0)>>),
      PXY(JNum(1, 0), JNum(2, 0)) }

ServerBodies ==
    { Body("object", WireReq(v, m, p, i), FALSE) :
        v \in Versions, m \in ServerMethodVals,
        p \in RegisterParams \cup SumParams, i \in Ids }
    \cup { Body("malformed", NoWireReq, FALSE), Body("scalar", NoWireReq, FALSE) }

\* Names and entries given to Server.Register
RegisterNames == {n_sum, n_RPCx}
\* Register stores the Method value it is given: besides the entries of the
\* tests, the zero value Method{} and a value with both fields set.
RegisterEntries ==
    { LocalMethod("Sum"), LocalMethod("Update"),
      LocalMethod("nil"), [ProxyMethod(u_b) EXCEPT !.Method = "Update"] }

ServiceNames == {n_update, n_subtract, n_broken, n_partial, n_nope, n_rpcx, n_Rpcx}
ServiceMethodVals ==
    {JStr(n) : n \in ServiceNames} \cup {JNum(1, 0), JAbsent, JArray, JBool, JObject}

ServiceParams ==
    { PAbsent,
      PArr(<<JNum(42, 0), JNum(23, 0)>>),
      PXY(JNum(999, 0), JNum(999, 0)),
      PXY(JNum(42, 0), JAbsent) }

ServiceBodies ==
    { Body("object", WireReq(v, m, p, i), mf) :
        v \in Versions, m \in ServiceMethodVals, p \in ServiceParams,
        i \in Ids, mf \in BOOLEAN }
    \cup { Body(k, NoWireReq, FALSE) : k \in {"malformed", "scalar", "array"} }
    \cup { BatchBody(<<BatchItem("object",
                                 WireReq(JStr(s_20), JStr(n_update), PAbsent, JNum(1, 0)))>>) }

ServiceRequests ==
    { HTTPReq(verb, ct, ac, b) :
        verb \in {"POST", "GET"}, ct \in {s_appjson, s_appJSON, s_text},
        ac \in {s_appjson, s_text}, b \in ServiceBodies }

\* The remote outcomes that matter for a request: only a proxied call
\* reaches the remote end.
RemoteChoices(methods, body) ==
    IF /\ ServerDecodes(body)
       /\ ValidateRequest(ServerDecode(body)).nil
       /\ CallRoute(methods, body.o.method.s) = "proxy"
    THEN RemoteOutcomes
    ELSE {Remote("transport", GoNil, NilErr)}

\* Batches
MaxBatch == 2
Members == 1..MaxBatch

BatchItems ==
    { BatchItem("object", WireReq(JStr(s_20), JStr(n_sum), PArr(<<JNum(1, 0), JNum(2, 0)>>), JNum(1, 0))),
      BatchItem("object", WireReq(JStr(s_20), JStr(n_sum), PArr(<<JNum(1, 0), JNum(2, 0)>>), JAbsent)),
      BatchItem("object", WireReq(JStr(s_20), JStr(n_nope), PAbsent, JStr(s_one))),
      BatchItem("object", WireReq(JStr(s_20), JStr(n_nope), PAbsent, JAbsent)),
      BatchItem("object", WireReq(JStr(s_10), JStr(n_sum), PAbsent, JNum(3, 0))),
      BatchItem("object", WireReq(JStr(s_10), JStr(n_sum), PAbsent, JAbsent)),
      BatchItem("object", WireReq(JStr(s_20), JStr(n_sum), PArr(<<JStr(s_one), JNum(2, 0)>>), JNum(4, 0))),
      BatchItem("object", WireReq(JNum(2, 0), JStr(n_sum), PAbsent, JNum(5, 0))),
      BatchItem("null", NoWireReq) }

RECURSIVE SeqsUpTo(_, _)
SeqsUpTo(S, n) ==
    IF n = 0 THEN {<<>>}
    ELSE SeqsUpTo(S, n - 1)
         \cup { Append(q, x) : q \in { t \in SeqsUpTo(S, n - 1) : Len(t) = n - 1 }, x \in S }

BatchBodies == { BatchBody(items) : items \in SeqsUpTo(BatchItems, MaxBatch) }

\* Context lineage: the routes of the deployment, what is registered on them
\* and what is sent to them
ServerRoutes == {"/api/v1/rpc"}
MuxRoutes == {"/api/v2/rpc"}
Routes == ServerRoutes \cup MuxRoutes
CtxRegistrations == {<<n_sum, LocalMethod("Sum")>>, <<n_add, ProxyMethod(u_a)>>}
CtxRegistrationsWithContext == {<<n_say, CtxMethod(<<>>, "Say", FALSE)>>}
Contexts == {Ctx(s_bob), Ctx(<<>>)}

CtxItems ==
    { WireReq(JStr(s_20), JStr(n_say), PArr(<<JStr(s_hello)>>), JNum(1, 0)),
      WireReq(JStr(s_20), JStr(n_sum), PArr(<<JNum(1, 0), JNum(2, 0)>>), JNum(2, 0)),
      WireReq(JStr(s_20), JStr(n_add), PArr(<<JNum(1, 0), JNum(2, 0)>>), JNum(3, 0)),
      WireReq(JStr(s_20), JStr(n_register), PArr(<<JStr(n_add), JStr(u_b)>>), JAbsent),
      WireReq(JStr(s_10), JStr(n_say), PAbsent, JNum(4, 0)) }
CtxBodies ==
    { Body("object", o, FALSE) : o \in CtxItems } \cup { Body("malformed", NoWireReq, FALSE) }
CtxBatchItems ==
    { BatchItem("object", WireReq(JStr(s_20), JStr(n_say), PArr(<<JStr(s_hello)>>), JNum(1, 0))),
      BatchItem("object", WireReq(JStr(s_20), JStr(n_sum), PArr(<<JNum(1, 0), JNum(2, 0)>>), JAbsent)),
      BatchItem("object", WireReq(JStr(s_10), JStr(n_say), PAbsent, JNum(4, 0))) }
CtxBatchBodies == { BatchBody(items) : items \in SeqsUpTo(CtxBatchItems, MaxBatch) }

----------------------------------------------------------------------------
(* Goroutines of the concurrent view *)

MaxGoroutines == 2
Goroutines == 1..MaxGoroutines

\* pc: "idle", "check" (about to read the registry at server.go:307),
\* "write" (about to assign at server.go:314), "done" (Call has returned ret)
\* fresh records whether the name to register was absent from the registry
\* when the call started.
Gor(pc, name, params, args, ret, fresh) ==
    [pc |-> pc, name |-> name, params |-> params, args |-> args, ret |-> ret,
     fresh |-> fresh]
NoArgs == Args("none", NilErr, <<>>, <<>>)
IdleGor == Gor("idle", <<>>, PAbsent, NoArgs, Ret(GoNil, NilErr), FALSE)

ConcNames == {n_register, n_add}
ConcParams ==
    { PArr(<<JStr(n_add), JStr(u_a)>>),
      PArr(<<JStr(n_add), JStr(u_b)>>),
      PNameUrl(JStr(n_sum), JStr(u_a)),
      PArr(<<JStr(n_add), JStr(u_ftp)>>) }

----------------------------------------------------------------------------
(* Actions *)

Init ==
    /\ Methods = NewServer
    /\ req = NoReq
    /\ w = FreshWriter
    /\ log = <<>>
    /\ lineage = "none"
    /\ gor = [g \in Goroutines |-> IdleGor]
    /\ crashed = FALSE
    /\ hb = IdleBatch
    /\ batch = <<>>
    /\ wg = 0
    /\ member = [k \in Members |-> IdleMember]
    /\ servers = [r \in Routes |-> NoRoute]
    /\ pp = NoParseCall

\* Server.Register (server.go:320-322), called between requests
Register(name, m) ==
    /\ lineage = "none"
    /\ Methods' = RegisterMethod(Methods, name, m)
    /\ UNCHANGED <<pp, req, w, log, lineage, gor, crashed, batchVars, servers>>

\* Server.rpcHandler serves one HTTP request carrying a single request
\* object (server.go:202-226, 326-365)
ServerServe(body, remote) ==
    /\ lineage = "none"
    /\ \E out \in {RpcHandler(Methods, body, remote)} :
           /\ Methods' = out.methods
           /\ w' = out.w
           /\ log' = out.log
    /\ req' = HTTPReq("POST", s_appjson, s_appjson, body)
    /\ lineage' = "Server"
    /\ UNCHANGED <<pp, gor, crashed, batchVars, servers>>

\* Service.RPCHandler serves one HTTP request (rpc.go:227-253)
ServiceServe(r) ==
    /\ lineage = "none"
    /\ \E out \in {RPCHandler(ServiceMethods, r)} :
           /\ w' = out.w
           /\ log' = out.log
    /\ req' = r
    /\ lineage' = "Service"
    /\ UNCHANGED <<pp, Methods, gor, crashed, batchVars, servers>>

\* The handler has returned and net/http has finished the exchange
ServeDone ==
    /\ lineage # "none"
    /\ hb.pc = "idle"
    /\ req' = NoReq
    /\ w' = FreshWriter
    /\ log' = <<>>
    /\ lineage' = "none"
    /\ UNCHANGED <<pp, Methods, gor, crashed, batchVars, servers>>

Idle == lineage = "none"

Next ==
    \/ Idle /\ \E name \in RegisterNames, m \in RegisterEntries : Register(name, m)
    \/ Idle /\ \E body \in ServerBodies :
                 \E remote \in RemoteChoices(Methods, body) : ServerServe(body, remote)
    \/ ServeDone

Spec == Init /\ [][Next]_vars

NextService ==
    \/ Idle /\ \E r \in ServiceRequests : ServiceServe(r)
    \/ ServeDone

SpecService == Init /\ [][NextService]_vars

----------------------------------------------------------------------------
(* The concurrent view: every HTTP request runs on its own goroutine, and   *)
(* HandleBatch starts one goroutine per valid member (server.go:251); each  *)
(* of them runs Server.Call on the shared, unlocked Methods map.            *)

\* Another goroutine is between its first and last access of the map
OthersInFlight(g) == \E h \in Goroutines \ {g} : gor[h].pc \in {"check", "write"}

\* Server.Call up to the uniqueness check of RegisterRPC (server.go:400-408,
\* 293-305) for a validated request naming `name`
GoStart(g, name, params, remote) ==
    /\ ~crashed
    /\ gor[g].pc = "idle"
    /\ LET route == CallRoute(Methods, name)
           args  == RegisterRPCArgs(params)
       IN  IF route = "local" /\ Methods[name].Method = "RegisterRPC" /\ args.k = "ok"
           THEN gor' = [gor EXCEPT ![g] =
                          Gor("check", name, params, args, Ret(GoNil, NilErr),
                              args.name \notin DOMAIN Methods)]
           ELSE gor' = [gor EXCEPT ![g] =
                          Gor("done", name, params, NoArgs,
                              Call(Methods, JStr(name), params, remote).ret, FALSE)]
    /\ UNCHANGED <<pp, Methods, req, w, log, lineage, crashed, batchVars, servers>>

\* The uniqueness check (server.go:307-312)
GoCheck(g) ==
    /\ ~crashed
    /\ gor[g].pc = "check"
    /\ IF RegisterRPCExists(Methods, gor[g].args.name)
       THEN gor' = [gor EXCEPT ![g].pc = "done",
                               ![g].ret = Ret(GoNil, Err(MethodExistsCode, "Method exists", ""))]
       ELSE gor' = [gor EXCEPT ![g].pc = "write"]
    /\ UNCHANGED <<pp, Methods, req, w, log, lineage, crashed, batchVars, servers>>

\* The insertion and the return of "success" (server.go:314-316)
GoWrite(g) ==
    /\ ~crashed
    /\ gor[g].pc = "write"
    /\ Methods' = MapSet(Methods, gor[g].args.name, ProxyMethod(gor[g].args.url))
    /\ gor' = [gor EXCEPT ![g].pc = "done", ![g].ret = Ret(JStr(s_success), NilErr)]
    /\ UNCHANGED <<pp, req, w, log, lineage, crashed, batchVars, servers>>

\* An unsynchronized map write racing with another goroutine's map access:
\* the runtime may detect it and abort the process ("concurrent map writes",
\* "concurrent map read and map write").
GoRace(g) ==
    /\ ~crashed
    /\ gor[g].pc = "write"
    /\ OthersInFlight(g)
    /\ crashed' = TRUE
    /\ UNCHANGED <<pp, Methods, req, w, log, lineage, gor, batchVars, servers>>

\* The goroutine ends
GoExit(g) ==
    /\ ~crashed
    /\ gor[g].pc = "done"
    /\ gor' = [gor EXCEPT ![g] = IdleGor]
    /\ UNCHANGED <<pp, Methods, req, w, log, lineage, crashed, batchVars, servers>>

ConcRemotes(name) ==
    IF CallRoute(Methods, name) = "proxy" THEN RemoteOutcomes
    ELSE {Remote("transport", GoNil, NilErr)}

NextConc ==
    \/ \E g \in Goroutines, name \in ConcNames, params \in ConcParams :
         \E remote \in ConcRemotes(name) : GoStart(g, name, params, remote)
    \/ \E g \in Goroutines : GoCheck(g)
    \/ \E g \in Goroutines : GoWrite(g)
    \/ \E g \in Goroutines : GoRace(g)
    \/ \E g \in Goroutines : GoExit(g)

SpecConc == Init /\ [][NextConc]_vars

----------------------------------------------------------------------------
(* Batches: Server.rpcHandler serves a JSON array (server.go:230-265)       *)

\* ParseRequest finds an array (server.go:339-362) and HandleBatch runs up to
\* its loop; an array that does not decode as []*RequestObject is answered
\* by rpcHandler with the Parse error.
BatchServe(body) ==
    /\ lineage = "none"
    /\ hb.pc = "idle"
    /\ ~crashed
    /\ req' = HTTPReq("POST", s_appjson, s_appjson, body)
    /\ lineage' = "Server"
    /\ IF BatchDecodes(body)
       THEN /\ w' = BatchOpen(FreshWriter, BatchDecode(body))
            /\ hb' = HB("loop", 1, BatchDecode(body), <<>>, NoEntry)
       ELSE /\ w' = Write(FreshWriter,
                          NewResponse(GoNil, Err(ParseErrorCode, "Parse error", "decode error"),
                                      GoNil, TRUE))
            /\ hb' = HB("done", 0, <<>>, <<>>, NoEntry)
    /\ batch' = <<>>
    /\ wg' = 0
    /\ member' = [k \in Members |-> IdleMember]
    /\ UNCHANGED <<pp, Methods, log, gor, crashed, servers>>

\* One turn of the for loop (server.go:244-259) for element i
BatchLoopStep(i, p, verr) ==
    IF p.nil
    THEN /\ w' = Abort(w)
         /\ hb' = [hb EXCEPT !.pc = "aborted"]
         /\ UNCHANGED <<wg, member>>
    ELSE IF ~verr.nil
    THEN /\ hb' = [hb EXCEPT !.pc = "write", !.snap = batch,
                             !.resp = Entry(i, NewResponse(GoNil, verr, p.r.ID, FALSE))]
         /\ UNCHANGED <<w, wg, member>>
    ELSE /\ wg' = wg + 1
         /\ member' = [member EXCEPT ![i] = Member("call", <<>>, NoEntry)]
         /\ hb' = [hb EXCEPT !.i = i + 1]
         /\ UNCHANGED w

BatchLoop ==
    /\ ~crashed
    /\ hb.pc = "loop"
    /\ hb.i <= Len(hb.reqs)
    /\ BatchLoopStep(hb.i, hb.reqs[hb.i],
                     IF hb.reqs[hb.i].nil THEN NilErr
                     ELSE ValidateRequest(hb.reqs[hb.i].r))
    /\ UNCHANGED <<pp, Methods, req, log, lineage, gor, crashed, batch, servers>>

\* The loop's AddResponse stores the appended slice (server.go:161, 246-247)
BatchAdd ==
    /\ ~crashed
    /\ hb.pc = "write"
    /\ batch' = AddResponse(hb.snap, hb.resp)
    /\ hb' = [hb EXCEPT !.pc = "loop", !.i = hb.i + 1, !.snap = <<>>, !.resp = NoEntry]
    /\ UNCHANGED <<pp, Methods, req, w, log, lineage, gor, crashed, wg, member, servers>>

\* wg.Wait() returns and the array is written (server.go:261-264)
BatchWait ==
    /\ ~crashed
    /\ hb.pc = "loop"
    /\ hb.i > Len(hb.reqs)
    /\ WaitReturns(wg)
    /\ w' = BatchClose(w, batch)
    /\ hb' = [hb EXCEPT !.pc = "done"]
    /\ UNCHANGED <<pp, Methods, req, log, lineage, gor, crashed, batch, wg, member, servers>>

\* What s.Call did in the goroutine of member k: a panic there is recovered
\* by nobody and ends the process.
MemberCalled(k, r, c) ==
    IF c.ret.panicked
    THEN /\ crashed' = TRUE
         /\ log' = log \o c.log
         /\ UNCHANGED <<Methods, member>>
    ELSE /\ Methods' = c.methods
         /\ log' = log \o c.log
         /\ member' = [member EXCEPT ![k] = MemberAfterCall(k, r, c.ret)]
         /\ UNCHANGED crashed

\* The goroutine of member k runs s.Call (server.go:253)
MemberCall(k, remote) ==
    /\ ~crashed
    /\ lineage = "Server"
    /\ member[k].pc = "call"
    /\ MemberCalled(k, hb.reqs[k].r,
                    Call(Methods, hb.reqs[k].r.Method, hb.reqs[k].r.Params, remote))
    /\ UNCHANGED <<pp, req, w, lineage, gor, hb, batch, wg, servers>>

\* AddResponse in the goroutine of member k reads b.Responses (server.go:161)
MemberRead(k) ==
    /\ ~crashed
    /\ member[k].pc = "read"
    /\ member' = [member EXCEPT ![k].pc = "write", ![k].snap = batch]
    /\ UNCHANGED <<pp, Methods, req, w, log, lineage, gor, crashed, hb, batch, wg, servers>>

\* ... and stores the appended slice
MemberWrite(k) ==
    /\ ~crashed
    /\ member[k].pc = "write"
    /\ batch' = AddResponse(member[k].snap, member[k].resp)
    /\ member' = [member EXCEPT ![k].pc = "exit", ![k].snap = <<>>]
    /\ UNCHANGED <<pp, Methods, req, w, log, lineage, gor, crashed, hb, wg, servers>>

\* The deferred wg.Done() (server.go:252)
MemberExit(k) ==
    /\ ~crashed
    /\ member[k].pc = "exit"
    /\ wg' = wg - 1
    /\ member' = [member EXCEPT ![k].pc = "done"]
    /\ UNCHANGED <<pp, Methods, req, w, log, lineage, gor, crashed, hb, batch, servers>>

MembersAtRest == \A k \in Members : member[k].pc \in {"none", "done"}

\* The exchange is over and every goroutine it started has ended
BatchDone ==
    /\ ~crashed
    /\ hb.pc \in {"done", "aborted"}
    /\ MembersAtRest
    /\ req' = NoReq
    /\ w' = FreshWriter
    /\ log' = <<>>
    /\ lineage' = "none"
    /\ hb' = IdleBatch
    /\ batch' = <<>>
    /\ wg' = 0
    /\ member' = [k \in Members |-> IdleMember]
    /\ UNCHANGED <<pp, Methods, gor, crashed, servers>>

MemberRemotes(k) ==
    IF member[k].pc = "call" /\ CallRoute(Methods, hb.reqs[k].r.Method.s) = "proxy"
    THEN RemoteOutcomes
    ELSE {Remote("transport", GoNil, NilErr)}

NextBatch ==
    \/ Idle /\ \E m \in RegisterEntries : Register(n_sum, m)
    \/ Idle /\ \E body \in BatchBodies : BatchServe(body)
    \/ BatchLoop
    \/ BatchAdd
    \/ BatchWait
    \/ \E k \in Members : \E remote \in MemberRemotes(k) : MemberCall(k, remote)
    \/ \E k \in Members : MemberRead(k)
    \/ \E k \in Members : MemberWrite(k)
    \/ \E k \in Members : MemberExit(k)
    \/ BatchDone

SpecBatch == Init /\ [][NextBatch]_vars

\* The same under the scheduling the Go runtime gives: the goroutine of
\* HandleBatch and every member goroutine that can take a step eventually
\* takes it, and a call that was started returns.  Nothing obliges a client
\* to send a batch.
BatchFairness ==
    /\ WF_vars(BatchLoop)
    /\ WF_vars(BatchAdd)
    /\ WF_vars(BatchWait)
    /\ \A k \in Members :
          /\ WF_vars(\E remote \in MemberRemotes(k) : MemberCall(k, remote))
          /\ WF_vars(MemberRead(k))
          /\ WF_vars(MemberWrite(k))
          /\ WF_vars(MemberExit(k))

SpecBatchFair == SpecBatch /\ BatchFairness

----------------------------------------------------------------------------
(* Context lineage (part_000): servers, mux handlers and their exchanges     *)

\* NewServer(host, route, headers) (part_000:536-550).  A deployment is one
\* Server or one MuxServer (README.md:158 warns against mixing them).
CtxCreateServer(route) ==
    /\ \A r \in Routes : servers[r].kind = "none"
    /\ servers' = [servers EXCEPT ![route] = RouteState("Server", CtxNewServer, FALSE)]
    /\ UNCHANGED <<pp, Methods, req, w, log, lineage, gor, crashed, batchVars>>

\* Server.Prepare (part_000:477-480), as Start and its variants call it
CtxPrepare(route) ==
    /\ servers[route].kind = "Server"
    /\ ~servers[route].bound
    /\ servers' = [servers EXCEPT ![route].bound = TRUE]
    /\ UNCHANGED <<pp, Methods, req, w, log, lineage, gor, crashed, batchVars>>

\* NewMuxHandler and MuxServer.AddHandler(route, handler)
\* (part_000:574-576, 621-623)
MuxAddHandler(route) ==
    /\ servers[route].kind = "none"
    /\ \A r \in Routes : servers[r].kind # "Server"
    /\ servers' = [servers EXCEPT ![route] = RouteState("Mux", NewMuxHandler, FALSE)]
    /\ UNCHANGED <<pp, Methods, req, w, log, lineage, gor, crashed, batchVars>>

\* MuxServer.Prepare (part_000:589-602)
MuxPrepare ==
    /\ \E r \in Routes : servers[r].kind = "Mux" /\ ~servers[r].bound
    /\ servers' = MuxPrepared(servers)
    /\ UNCHANGED <<pp, Methods, req, w, log, lineage, gor, crashed, batchVars>>

\* Server.Register / MuxHandler.Register (part_000:333-340, 559-566)
CtxRegister(route, name, m) ==
    /\ servers[route].kind # "none"
    /\ servers' = [servers EXCEPT ![route].Methods = CtxRegisterMethod(@, name, m)]
    /\ UNCHANGED <<pp, Methods, req, w, log, lineage, gor, crashed, batchVars>>

\* Server.RegisterWithContext / MuxHandler.RegisterWithContext
\* (part_000:342-344, 569-571)
CtxRegisterWithContext(route, name, m) ==
    /\ servers[route].kind # "none"
    /\ servers' = [servers EXCEPT ![route].Methods = CtxRegisterWithContextMethod(@, name, m)]
    /\ UNCHANGED <<pp, Methods, req, w, log, lineage, gor, crashed, batchVars>>

\* Server.rpcHandler of the route serves one HTTP request carrying a single
\* request object (part_000:215-239, 348-388)
CtxServe(route, ctx, body, remote) ==
    /\ lineage = "none"
    /\ servers[route].bound
    /\ \E out \in {CtxRpcHandler(servers[route].Methods, ctx, body, remote)} :
           /\ servers' = [servers EXCEPT ![route].Methods = out.methods]
           /\ w' = out.w
           /\ log' = out.log
    /\ req' = CtxHTTPReq(route, ctx, body)
    /\ lineage' = "Context"
    /\ UNCHANGED <<pp, Methods, gor, crashed, batchVars>>

\* Server.rpcHandler of the route finds an array: ParseRequest decodes it
\* into reqs without setting their ctx (part_000:373-384) and HandleBatch
\* runs up to its loop (part_000:243-256).
CtxBatchServe(route, ctx, body) ==
    /\ lineage = "none"
    /\ hb.pc = "idle"
    /\ ~crashed
    /\ servers[route].bound
    /\ req' = CtxHTTPReq(route, ctx, body)
    /\ lineage' = "Context"
    /\ IF BatchDecodes(body)
       THEN /\ w' = BatchOpen(SetHeaders(FreshWriter, {"Content-Type"} \cup ServerHeaders),
                              BatchDecode(body))
            /\ hb' = HB("loop", 1, BatchDecode(body), <<>>, NoEntry)
       ELSE /\ w' = Write(SetHeaders(FreshWriter, {"Content-Type"} \cup ServerHeaders),
                          NewResponse(GoNil, Err(ParseErrorCode, "Parse error", "decode error"),
                                      GoNil, TRUE))
            /\ hb' = HB("done", 0, <<>>, <<>>, NoEntry)
    /\ batch' = <<>>
    /\ wg' = 0
    /\ member' = [k \in Members |-> IdleMember]
    /\ UNCHANGED <<pp, Methods, log, gor, crashed, servers>>

\* The ctx field of a request decoded as a batch member: never assigned
BatchMemberCtx == NilCtx

CtxMemberCalled(k, r, c) ==
    IF c.ret.panicked
    THEN /\ crashed' = TRUE
         /\ log' = log \o c.log
         /\ UNCHANGED <<servers, member>>
    ELSE /\ servers' = [servers EXCEPT ![req.route].Methods = c.methods]
         /\ log' = log \o c.log
         /\ member' = [member EXCEPT ![k] = MemberAfterCall(k, r, c.ret)]
         /\ UNCHANGED crashed

\* The goroutine of member k runs s.Call(req.ctx, ...) (part_000:266)
CtxMemberCall(k, remote) ==
    /\ ~crashed
    /\ lineage = "Context"
    /\ member[k].pc = "call"
    /\ CtxMemberCalled(k, hb.reqs[k].r,
                       CtxCall(BatchMemberCtx, servers[req.route].Methods,
                               hb.reqs[k].r.Method, hb.reqs[k].r.Params, remote))
    /\ UNCHANGED <<pp, Methods, req, w, lineage, gor, hb, batch, wg>>

CtxRemotes(methods, body) ==
    IF /\ ServerDecodes(body)
       /\ ValidateRequest(ServerDecode(body)).nil
       /\ CtxCallRoute(methods, body.o.method.s) = "proxy"
    THEN RemoteOutcomes
    ELSE {Remote("transport", GoNil, NilErr)}

CtxMemberRemotes(k) ==
    IF /\ lineage = "Context"
       /\ member[k].pc = "call"
       /\ CtxCallRoute(servers[req.route].Methods, hb.reqs[k].r.Method.s) = "proxy"
    THEN RemoteOutcomes
    ELSE {Remote("transport", GoNil, NilErr)}

NextCtx ==
    \/ Idle /\ \E route \in ServerRoutes : CtxCreateServer(route)
    \/ Idle /\ \E route \in ServerRoutes : CtxPrepare(route)
    \/ Idle /\ \E route \in MuxRoutes : MuxAddHandler(route)
    \/ Idle /\ MuxPrepare
    \/ Idle /\ \E route \in Routes, nm \in CtxRegistrations : CtxRegister(route, nm[1], nm[2])
    \/ Idle /\ \E route \in Routes, nm \in CtxRegistrationsWithContext :
                 CtxRegisterWithContext(route, nm[1], nm[2])
    \/ Idle /\ \E route \in Routes, ctx \in Contexts, body \in CtxBodies :
                 \E remote \in CtxRemotes(servers[route].Methods, body) :
                    CtxServe(route, ctx, body, remote)
    \/ Idle /\ \E route \in Routes, body \in CtxBatchBodies :
                 CtxBatchServe(route, Ctx(s_bob), body)
    \/ BatchLoop
    \/ BatchAdd
    \/ BatchWait
    \/ \E k \in Members : \E remote \in CtxMemberRemotes(k) : CtxMemberCall(k, remote)
    \/ \E k \in Members : MemberRead(k)
    \/ \E k \in Members : MemberWrite(k)
    \/ \E k \in Members : MemberExit(k)
    \/ BatchDone
    \/ ServeDone

SpecCtx == Init /\ [][NextCtx]_vars

----------------------------------------------------------------------------
(* ParseParams on its own (server.go:112-131) *)

\* Raw params: absent, null, a scalar, objects over the two members of a
\* shape, and arrays of up to MaxParams elements
MaxParams == 3
ParamVals == {JNum(1, 0), JNum(2, 0), JStr(n_add), JStr(u_a)}
PScalar == [t |-> "scalar", a |-> <<>>, o |-> NoMembers]
ParamShapes ==
    { [k1 |-> "x", k2 |-> "y", ty |-> "num", msg |-> "exactly two integers are required"],
      [k1 |-> "name", k2 |-> "url", ty |-> "str", msg |-> "register requires name and url parameters"] }
ParamInputs(sh) ==
    {PAbsent, PNull, PScalar}
    \cup { PObj([NoMembers EXCEPT ![sh.k1] = a, ![sh.k2] = b]) :
             a \in ParamVals \cup {JAbsent, JNull}, b \in ParamVals \cup {JAbsent, JNull} }
    \cup { PArr(a) : a \in SeqsUpTo(ParamVals, MaxParams) }

\* A handler calls ParseParams(params, p) with p of the given shape
ParseParamsCall(params, sh) ==
    /\ lineage = "none"
    /\ pp' = ParseCall(params, sh.k1, sh.k2, sh.ty,
                       ParseParamsCalls(params, sh.k1, sh.k2, sh.ty),
                       ParseParams(params, sh.k1, sh.k2, sh.ty, sh.msg))
    /\ UNCHANGED <<Methods, req, w, log, lineage, gor, crashed, batchVars, servers>>

NextParams == \E sh \in ParamShapes : \E params \in ParamInputs(sh) : ParseParamsCall(params, sh)

SpecParams == Init /\ [][NextParams]_vars

----------------------------------------------------------------------------
(* Properties *)

\* The request object of the exchange in progress and what was written
Obj == req.body.o
OneResponse == Len(w.body) = 1
IsError(chunk, code, msg) ==
    /\ ~chunk.error.nil
    /\ chunk.error.code = code
    /\ chunk.error.message = msg
ValidIdType(i) == i.t \in {"str", "null"} \/ (i.t = "num" /\ i.f = 0)
BadIdType(i) == i.t \in {"array", "object"} \/ (i.t = "num" /\ i.f # 0)
GoodHeaders ==
    /\ req.verb = "POST"
    /\ EqualFold(req.ctype, s_appjson)
    /\ EqualFold(req.accept, s_appjson)

\* C1: in the Service lineage a POST with valid Content-Type and Accept
\* headers whose request object has no id member gets status 204 and no
\* body, whatever else the request contains.
C1_NotificationAlways204 ==
    (/\ lineage = "Service"
     /\ GoodHeaders
     /\ req.body.k = "object"
     /\ Obj.id.t = "absent")
    => (w.status = 204 /\ w.body = <<>> /\ ~w.aborted)

\* C2: Server.HandleRequest writes no response body for a request without
\* id, also when validation fails, the method is missing or the handler
\* returns an error.
C2_ServerNotificationSilent ==
    (/\ lineage = "Server"
     /\ ServerDecodes(req.body)
     /\ Obj.id.t = "absent")
    => w.body = <<>>

\* C3: a request with version "2.0" and an id member that is a string, an
\* integer-valued number or null, served by a local method that returns
\* without error, gets exactly one response whose id is the request's id
\* with its JSON type (both lineages).
C3_IdRoundTrip ==
    (/\ lineage \in {"Server", "Service"}
     /\ req.body.k = "object"
     /\ Obj.jsonrpc = JStr(s_20)
     /\ ValidIdType(Obj.id)
     /\ Len(log) = 1
     /\ log[1].kind = "local"
     /\ ~log[1].ret.panicked
     /\ log[1].ret.err.nil)
    => (OneResponse /\ w.body[1].id = Obj.id)

\* C4: every response object written by the Server lineage has exactly one
\* of the members result and error.
C4_ResultXorError ==
    lineage = "Server" =>
        \A k \in DOMAIN w.body :
            (w.body[k].result.t # "absent") # (~w.body[k].error.nil)

\* C5: a valid request with an id member that names a method absent from
\* the registry gets exactly one response, the error -32601 "Method not
\* found" with no result and the request's id; no handler is invoked, no
\* proxy call is made and the registry is untouched.
C5_MethodNotFound ==
    [][ (/\ lineage = "none"
         /\ lineage' = "Server"
         /\ req'.body.k = "object"
         /\ req'.body.o.jsonrpc = JStr(s_20)
         /\ req'.body.o.method.t = "str"
         /\ ~HasPrefix(req'.body.o.method.s, s_rpcdot)
         /\ req'.body.o.id.t # "absent"
         /\ req'.body.o.method.s \notin DOMAIN Methods)
        => (/\ Len(w'.body) = 1
            /\ IsError(w'.body[1], MethodNotFoundCode, "Method not found")
            /\ w'.body[1].result.t = "absent"
            /\ w'.body[1].id = req'.body.o.id
            /\ log' = <<>>
            /\ Methods' = Methods) ]_vars

C5_Witness ==
    /\ lineage = "Server"
    /\ Obj.method = JStr(n_nope)
    /\ Obj.id = JStr(s_one)
    /\ OneResponse
    /\ IsError(w.body[1], MethodNotFoundCode, "Method not found")
    /\ w.body[1].id = JStr(s_one)

\* C6: a request whose method name starts with "rpc." in any letter case is
\* answered Invalid Request (-32600) by the Server and no handler runs,
\* whether or not a method of that name is registered.
C6_RpcPrefixAnyCase ==
    (/\ lineage = "Server"
     /\ ServerDecodes(req.body)
     /\ Obj.method.t = "str"
     /\ HasPrefix(ToLower(Obj.method.s), s_rpcdot))
    => (/\ OneResponse
        /\ IsError(w.body[1], InvalidRequestCode, "Invalid Request")
        /\ log = <<>>)

C8_ServerRejectsBadId ==
    (/\ lineage = "Server"
     /\ ServerDecodes(req.body)
     /\ (BadIdType(Obj.id) \/ Obj.id.t = "bool"))
    => (/\ log = <<>>
        /\ OneResponse
        /\ ~w.body[1].error.nil)

\* C9: a well-formed jrpc2.register call for a name that is not registered
\* inserts the proxy entry and returns "success"; a well-formed call for a
\* name that is registered returns Method exists (-32000) and leaves the
\* registry as it was, so the entry of the first call stays.
WellFormedRegister(b) ==
    /\ b.k = "object"
    /\ b.o.jsonrpc = JStr(s_20)
    /\ b.o.method = JStr(n_register)
    /\ \/ /\ b.o.params.t = "array"
          /\ Len(b.o.params.a) = 2
          /\ b.o.params.a[1].t = "str"
          /\ b.o.params.a[2].t = "str"
       \/ /\ b.o.params.t = "object"
          /\ b.o.params.o["name"].t = "str"
          /\ b.o.params.o["url"].t = "str"
RegName(b) == IF b.o.params.t = "array" THEN b.o.params.a[1].s ELSE b.o.params.o["name"].s
RegURL(b)  == IF b.o.params.t = "array" THEN b.o.params.a[2].s ELSE b.o.params.o["url"].s
HttpURL(u) == HasPrefix(u, s_http) \/ HasPrefix(u, s_https)

C9_RegisterTwice ==
    [][ (/\ lineage = "none"
         /\ lineage' = "Server"
         /\ WellFormedRegister(req'.body)
         /\ HttpURL(RegURL(req'.body)))
        => IF RegName(req'.body) \in DOMAIN Methods
           THEN /\ Methods' = Methods
                /\ Len(w'.body) = 1
                /\ IsError(w'.body[1], MethodExistsCode, "Method exists")
           ELSE /\ Methods' = MapSet(Methods, RegName(req'.body),
                                     ProxyMethod(RegURL(req'.body)))
                /\ log'[1].ret = Ret(JStr(s_success), NilErr)
                /\ req'.body.o.id.t \notin {"absent", "null"}
                   => (Len(w'.body) = 1 /\ w'.body[1].result = JStr(s_success)) ]_vars

\* the second registration of "add", with another URL, has failed and the
\* entry still holds the first URL
C9_Witness ==
    /\ lineage = "Server"
    /\ WellFormedRegister(req.body)
    /\ RegName(req.body) = n_add
    /\ RegURL(req.body) = u_b
    /\ OneResponse
    /\ IsError(w.body[1], MethodExistsCode, "Method exists")
    /\ Methods[n_add] = ProxyMethod(u_a)

\* C10: of two concurrent jrpc2.register calls for the same, previously
\* unregistered name exactly one returns "success" and the other Method
\* exists, and the registry keeps the entry of the successful call.
C10_ConcurrentRegisterOnce ==
    \A g \in Goroutines, h \in Goroutines :
      (/\ g # h
       /\ gor[g].pc = "done" /\ gor[h].pc = "done"
       /\ gor[g].fresh /\ gor[h].fresh
       /\ gor[g].args.name = gor[h].args.name)
      => \/ /\ gor[g].ret = Ret(JStr(s_success), NilErr)
            /\ IsError([error |-> gor[h].ret.err], MethodExistsCode, "Method exists")
            /\ Methods[gor[g].args.name] = ProxyMethod(gor[g].args.url)
         \/ /\ gor[h].ret = Ret(JStr(s_success), NilErr)
            /\ IsError([error |-> gor[g].ret.err], MethodExistsCode, "Method exists")
            /\ Methods[gor[h].args.name] = ProxyMethod(gor[h].args.url)

ProxyEntry(methods, n) ==
    /\ n \in DOMAIN methods
    /\ methods[n].Method = "nil"
    /\ methods[n].URL # <<>>

\* C11: once jrpc2.register has put the proxy entry for name n and URL u
\* into the registry, a later version-2.0 call to n is dispatched by proxy to
\* u (one outbound POST, no local handler, registry untouched) and, when the
\* remote end answers with a result, that result is what the caller with an
\* id receives; the call is never answered by the server itself.
C11_RegisteredIsProxied ==
    [][ (/\ lineage = "none"
         /\ lineage' = "Server"
         /\ req'.body.k = "object"
         /\ req'.body.o.jsonrpc = JStr(s_20)
         /\ req'.body.o.method.t = "str"
         /\ ProxyEntry(Methods, req'.body.o.method.s))
        => (/\ Len(log') = 1
            /\ log'[1].kind = "proxy"
            /\ log'[1].target = Methods[req'.body.o.method.s].URL
            /\ Methods' = Methods
            /\ (/\ log'[1].reply.k = "resp"
                /\ log'[1].reply.result.t # "nil"
                /\ req'.body.o.id.t \notin {"absent", "null"})
               => (/\ Len(w'.body) = 1
                   /\ w'.body[1].result = log'[1].reply.result
                   /\ w'.body[1].error.nil)) ]_vars

\* What the remote server's own response contains, as a result-or-error pair
RemoteAnswer(reply) ==
    IF reply.result.t # "nil" THEN Ret(reply.result, NilErr)
    ELSE IF ~reply.err.nil THEN Ret(GoNil, reply.err)
    ELSE Ret(GoNil, NilErr)

\* C12: what Server.Call returns for a proxy entry is what the remote
\* server's response contains: its result as the result, its error as the
\* error, and a response with a null or absent result and no error as a
\* successful null result.
C12_ProxyRoundTrip ==
    (/\ lineage = "Server"
     /\ Len(log) = 1
     /\ log[1].kind = "proxy"
     /\ log[1].reply.k = "resp")
    => log[1].ret = RemoteAnswer(log[1].reply)

\* The entry Server.Register(name, Method{Url: u}) leaves in a registry of the
\* context lineage: a URL and no local function behind the closure
RegisteredByUrl(methods, n) ==
    /\ n \in DOMAIN methods
    /\ methods[n].Wrapped
    /\ methods[n].Method = "nil"
    /\ methods[n].URL # <<>>

\* C13: in the context lineage a name registered with
\* Server.Register(name, Method{Url: u}) and no local function is called by
\* proxy: a version-2.0 call to it makes one outbound request to u, runs no
\* local function, and returns the remote result or the remote error.
C13_RegisterUrlIsProxied ==
    [][ (/\ lineage = "none"
         /\ lineage' = "Context"
         /\ req'.body.k = "object"
         /\ req'.body.o.jsonrpc = JStr(s_20)
         /\ req'.body.o.method.t = "str"
         /\ RegisteredByUrl(servers[req'.route].Methods, req'.body.o.method.s))
        => (/\ Len(log') = 1
            /\ log'[1].kind = "proxy"
            /\ log'[1].target = servers[req'.route].Methods[req'.body.o.method.s].URL
            /\ ~w'.aborted
            /\ (log'[1].reply.k = "resp" /\ log'[1].reply.result.t # "nil")
                  => log'[1].ret = Ret(log'[1].reply.result, NilErr)
            /\ (log'[1].reply.k = "resp" /\ log'[1].reply.result.t = "nil"
                 /\ ~log'[1].reply.err.nil)
                  => log'[1].ret = Ret(GoNil, log'[1].reply.err)) ]_vars

\* C14: jrpc2.register is in the registry of every dispatcher that serves a
\* route, whether NewServer made it or MuxServer.Prepare built it around a
\* MuxHandler made by NewMuxHandler.
C14_RegisterResolvableEverywhere ==
    \A r \in Routes : servers[r].bound => n_register \in DOMAIN servers[r].Methods

\* C15: in the context lineage every handler invocation receives the context
\* of the inbound HTTP request, for a single request and for every member of
\* a batch dispatched by HandleBatch.
C15_HandlersReceiveRequestContext ==
    lineage = "Context"
        => \A i \in DOMAIN log : log[i].kind = "local" => log[i].ctx = req.ctx

\* The batch exchange in progress: what was written as the array, and the
\* members of the decoded batch
IsArray(chunk) == "array" \in DOMAIN chunk
ArrayWritten == \E j \in DOMAIN w.body : IsArray(w.body[j])
WrittenArray ==
    IF ArrayWritten
    THEN w.body[CHOOSE j \in DOMAIN w.body : IsArray(w.body[j])].array
    ELSE <<>>
BatchFinished ==
    /\ lineage = "Server"
    /\ hb.pc = "done"
    /\ BatchDecodes(req.body)
    /\ \A k \in DOMAIN hb.reqs : ~hb.reqs[k].nil
FailedValidation(k) == ~ValidateRequest(hb.reqs[k].r).nil
HasId(k) == hb.reqs[k].r.ID.t # "nil"
\* the goroutine of member k made a response: s.Call failed, or it has an id
MadeResponse(k) == member[k].resp.from = k
EntriesFrom(k) == {j \in DOMAIN WrittenArray : WrittenArray[j].from = k}

\* C16: when HandleBatch has returned, the response array holds exactly one
\* entry for each member that failed validation, failed dispatch or has an
\* id, and none for any other member, whatever the interleaving was.
C16_BatchEntriesComplete ==
    BatchFinished =>
        \A k \in DOMAIN hb.reqs :
            Cardinality(EntriesFrom(k)) =
                IF FailedValidation(k) \/ MadeResponse(k) THEN 1 ELSE 0

\* C17: the response array is written only after every member goroutine
\* has ended, and what was written is the batch as it stays: nothing is
\* added at or after the write.
C17_ArrayAfterJoin ==
    ArrayWritten =>
        /\ MembersAtRest
        /\ wg = 0
        /\ hb.pc = "done"
        /\ WrittenArray = batch

\* two dispatched members have run and ended before the array of their two
\* entries was written
C17_Witness ==
    /\ ArrayWritten
    /\ Len(WrittenArray) = 2
    /\ member[1].pc = "done" /\ MadeResponse(1)
    /\ member[2].pc = "done" /\ MadeResponse(2)

C19_BatchNotificationsSilent ==
    BatchFinished =>
        /\ \A j \in DOMAIN WrittenArray : HasId(WrittenArray[j].from)
        /\ (Len(hb.reqs) > 0 /\ \A k \in DOMAIN hb.reqs : ~HasId(k)) => w.body = <<>>

\* C20: for an empty array exactly one response object is written, the
\* error -32600 Invalid Request with id null, and nothing else.
C20_EmptyBatch ==
    (/\ lineage = "Server"
     /\ req.body.k = "array"
     /\ req.body.items = <<>>)
    => (/\ Len(w.body) = 1
        /\ ~IsArray(w.body[1])
        /\ IsError(w.body[1], InvalidRequestCode, "Invalid Request")
        /\ w.body[1].result.t = "absent"
        /\ w.body[1].id = JNull)

C20_Witness ==
    /\ lineage = "Server"
    /\ req.body.k = "array"
    /\ req.body.items = <<>>
    /\ hb.pc = "done"
    /\ Len(w.body) = 1
    /\ IsError(w.body[1], InvalidRequestCode, "Invalid Request")

\* C21: in the Service lineage a body whose top-level JSON value is an array,
\* empty or not, that reaches the decode step (POST with the Content-Type and
\* Accept headers accepted) gets one top-level error object, -32000 Not
\* implemented with data "batch requests not supported", with status 200,
\* never an array, and no handler runs.
C21_ServiceBatchNotImplemented ==
    (/\ lineage = "Service"
     /\ GoodHeaders
     /\ req.body.k = "array")
    => (/\ OneResponse
        /\ ~IsArray(w.body[1])
        /\ IsError(w.body[1], NotImplementedCode, "Not implemented")
        /\ w.body[1].error.data = "batch requests not supported"
        /\ w.body[1].result.t = "absent"
        /\ w.status = 200
        /\ ~w.aborted
        /\ log = <<>>)

\* a batch of one valid request has been answered
C21_Witness ==
    /\ lineage = "Service"
    /\ GoodHeaders
    /\ req.body.k = "array"
    /\ Len(req.body.items) = 1
    /\ OneResponse
    /\ IsError(w.body[1], NotImplementedCode, "Not implemented")

\* A JSON value that is no request object for the Server's decoder: not an
\* object, or an object whose jsonrpc member is not a string
NoRequestObject(k, o) ==
    \/ k \in {"malformed", "scalar"}
    \/ k = "object" /\ o.jsonrpc.t \notin {"absent", "null", "str"}

\* The body decodes neither as a request object nor as an array of them
Undecodable(body) ==
    \/ NoRequestObject(body.k, body.o)
    \/ /\ body.k = "array"
       /\ \E i \in DOMAIN body.items :
              NoRequestObject(body.items[i].k, body.items[i].o)

\* C22: for a body that decodes neither as a request object nor as an array
\* of request objects, Server.rpcHandler writes exactly one response, the
\* Parse error -32700 with id null and no result, and no handler runs.
C22_UndecodableIsParseError ==
    (/\ lineage = "Server"
     /\ Undecodable(req.body))
    => (/\ OneResponse
        /\ IsError(w.body[1], ParseErrorCode, "Parse error")
        /\ w.body[1].id = JNull
        /\ w.body[1].result.t = "absent"
        /\ ~w.aborted
        /\ log = <<>>)

\* an object whose jsonrpc member is a number has been answered
C22_Witness ==
    /\ lineage = "Server"
    /\ req.body.k = "object"
    /\ Obj.jsonrpc.t = "num"
    /\ Obj.method = JStr(n_sum)
    /\ OneResponse
    /\ IsError(w.body[1], ParseErrorCode, "Parse error")

\* The one response written is Invalid Request with the given data
InvalidRequestWith(data) ==
    /\ OneResponse
    /\ IsError(w.body[1], InvalidRequestCode, "Invalid Request")
    /\ w.body[1].error.data = data
    /\ log = <<>>

\* C23: Server.ValidateRequest gives no error or exactly one, the first that
\* applies of: version not "2.0"; method not a string ("method name must be
\* a string"); method with the prefix rpc.  A request failing several checks
\* is answered with the first only, and one passing all three is dispatched.
C23_ValidatePrecedence ==
    (/\ lineage = "Server"
     /\ req.body.k = "object"
     /\ Obj.jsonrpc.t \in {"absent", "null", "str"})
    => (/\ Obj.jsonrpc # JStr(s_20)
            => InvalidRequestWith("jsonrpc request member must be exactly '2.0'")
        /\ (Obj.jsonrpc = JStr(s_20) /\ Obj.method.t # "str")
            => InvalidRequestWith("method name must be a string")
        /\ (Obj.jsonrpc = JStr(s_20) /\ Obj.method.t = "str"
             /\ HasPrefix(Obj.method.s, s_rpcdot))
            => InvalidRequestWith("method cannot match the pattern rpc.*")
        /\ (Obj.jsonrpc = JStr(s_20) /\ Obj.method.t = "str"
             /\ ~HasPrefix(Obj.method.s, s_rpcdot))
            => (/\ ValidateRequest(ServerDecode(req.body)) = NilErr
                /\ \A j \in DOMAIN w.body :
                       ~IsError(w.body[j], InvalidRequestCode, "Invalid Request")))

\* a request with version "1.0" and a number as method got the version error
C23_Witness ==
    /\ lineage = "Server"
    /\ req.body.k = "object"
    /\ Obj.jsonrpc = JStr(s_10)
    /\ Obj.method.t = "num"
    /\ InvalidRequestWith("jsonrpc request member must be exactly '2.0'")

\* C24: in Service.Do a request object whose method member is a number, a
\* boolean, an array or an object is answered with the field-specific error
\* Invalid method (-32002), without id and without result, and with no other
\* error.
C24_ServiceInvalidMethod ==
    (/\ lineage = "Service"
     /\ GoodHeaders
     /\ req.body.k = "object"
     /\ Obj.method.t \in {"num", "bool", "array", "object"})
    => (/\ OneResponse
        /\ IsError(w.body[1], InvalidMethodCode, "Invalid method")
        /\ w.body[1].id = JAbsent
        /\ w.body[1].result.t = "absent"
        /\ log = <<>>)

\* The one response written carries the error e, no result and the id of the
\* request
ErrorPassedOn(e) ==
    /\ OneResponse
    /\ w.body[1].error = e
    /\ w.body[1].result.t = "absent"
    /\ w.body[1].id = MarshalIface(UnmarshalIface(Obj.id))

\* C25: the error object a local handler returns is the error of the
\* response, unmodified and with the request's id, when the handler was
\* called directly and when the call reached it through a proxy entry (the
\* remote server's response then carries the handler's error).
C25_HandlerErrorPassesThrough ==
    (/\ lineage = "Server"
     /\ req.body.k = "object"
     /\ Len(log) = 1)
    => (/\ (/\ log[1].kind = "local"
             /\ ~log[1].ret.panicked
             /\ ~log[1].ret.err.nil)
            => ErrorPassedOn(log[1].ret.err)
        /\ (/\ log[1].kind = "proxy"
             /\ log[1].reply.k = "resp"
             /\ log[1].reply.result.t = "nil"
             /\ ~log[1].reply.err.nil)
            => ErrorPassedOn(log[1].reply.err))

\* the remote handler's -32001 "Mock error" came back through the proxy
\* entry with the id of the request
C25_Witness ==
    /\ lineage = "Server"
    /\ Len(log) = 1
    /\ log[1].kind = "proxy"
    /\ log[1].reply = Remote("resp", GoNil, RemoteError)
    /\ Obj.id = JNum(1, 0)
    /\ ErrorPassedOn(RemoteError)

\* The named call that is equivalent to the positional call <<a, b>>
NamedEquivalent(a, k1, k2) == PObj([NoMembers EXCEPT ![k1] = a[1], ![k2] = a[2]])

\* C26: ParseParams tries the named decode first and, when it succeeds,
\* returns no error and never calls FromPositional; when it fails, it decodes
\* the same bytes as an array and calls FromPositional once with the elements
\* in order; it returns an error, always -32602 Invalid params, exactly when
\* the named decode fails and the array decode or FromPositional fails; and
\* a positional call leaves the same values as the equivalent named call.
C26_ParseParamsTwoPaths ==
    LET named == NamedOk(pp.params, pp.k1, pp.k2, pp.ty)
        array == PositionalOk(pp.params)
    IN  pp.called =>
        /\ named => (pp.out.err.nil /\ ~pp.out.panicked /\ pp.calls = <<>>)
        /\ (~named /\ array) => pp.calls = <<pp.params.a>>
        /\ (~named /\ ~array) => pp.calls = <<>>
        /\ ~pp.out.panicked =>
              /\ ~pp.out.err.nil <=> (~named /\ (~array \/ Len(pp.params.a) # 2))
              /\ ~pp.out.err.nil => pp.out.err.code = InvalidParamsCode
        /\ (/\ pp.params.t = "array"
             /\ Len(pp.params.a) = 2
             /\ pp.params.a[1].t = pp.ty
             /\ pp.params.a[2].t = pp.ty)
            => (/\ pp.out.err.nil
                /\ ~pp.out.panicked
                /\ pp.out.v1 = pp.params.a[1]
                /\ pp.out.v2 = pp.params.a[2]
                /\ LET n == ParseParams(NamedEquivalent(pp.params.a, pp.k1, pp.k2),
                                        pp.k1, pp.k2, pp.ty, "")
                   IN  n.v1 = pp.out.v1 /\ n.v2 = pp.out.v2 /\ n.err.nil)

\* the positional call [1, 2] was parsed for a struct with members x and y
C26_Witness ==
    /\ pp.called
    /\ pp.params = PArr(<<JNum(1, 0), JNum(2, 0)>>)
    /\ pp.k1 = "x"
    /\ pp.calls = <<pp.params.a>>
    /\ pp.out = PP(NilErr, FALSE, JNum(1, 0), JNum(2, 0))

\* C27: every response the Server of server.go writes carries all headers
\* configured on the server, and Content-Type: application/json whenever its
\* body is not empty: single-request responses, batch responses and the
\* Parse error written by rpcHandler.
C27_ServerResponseHeaders ==
    (lineage = "Server" /\ ~w.aborted)
    => (/\ ServerHeaders \subseteq w.header
        /\ w.body # <<>> => "Content-Type" \in w.header)

\* C28: in the Service lineage a request whose HTTP verb is not POST gets
\* status 405, the header Allow: POST and the error -32600 Invalid Request
\* without id; its body is not looked at and no handler runs.
C28_ServiceVerbNotPost ==
    (lineage = "Service" /\ req.verb # "POST")
    => (/\ w.status = 405
        /\ "Allow" \in w.header
        /\ OneResponse
        /\ IsError(w.body[1], InvalidRequestCode, "Invalid Request")
        /\ w.body[1].error.data = "request method must be of POST type"
        /\ w.body[1].id = JAbsent
        /\ w.body[1].result.t = "absent"
        /\ ~w.aborted
        /\ log = <<>>)

\* a GET carrying a valid notification has been answered 405
C28_Witness ==
    /\ lineage = "Service"
    /\ req.verb = "GET"
    /\ req.body.k = "object"
    /\ Obj.jsonrpc = JStr(s_20)
    /\ Obj.method = JStr(n_update)
    /\ Obj.id = JAbsent
    /\ w.status = 405
    /\ OneResponse

\* C29: in the Service lineage a POST whose Content-Type is not
\* application/json gets status 415 and the error -32700 Parse error whatever
\* the body is (valid request, notification, batch or malformed JSON), and
\* no handler runs.
C29_ServiceUnsupportedMediaType ==
    (/\ lineage = "Service"
     /\ req.verb = "POST"
     /\ ~EqualFold(req.ctype, s_appjson))
    => (/\ w.status = 415
        /\ OneResponse
        /\ IsError(w.body[1], ParseErrorCode, "Parse error")
        /\ w.body[1].error.data = "Content-Type header must be set to 'application/json'"
        /\ w.body[1].id = JAbsent
        /\ w.body[1].result.t = "absent"
        /\ ~w.aborted
        /\ log = <<>>)

\* a text/plain POST carrying a batch has been answered 415
C29_Witness ==
    /\ lineage = "Service"
    /\ req.verb = "POST"
    /\ req.ctype = s_text
    /\ req.body.k = "array"
    /\ w.status = 415
    /\ OneResponse

\* C30: in the Server lineage a single request object whose jsonrpc member
\* is anything but the string "2.0" (absent, another string, or a value that
\* is no string, such as the number 2.0) is not dispatched and is answered
\* Invalid Request (-32600) with the id of the request.
C30_VersionMustBeTwoZero ==
    (/\ lineage = "Server"
     /\ req.body.k = "object"
     /\ Obj.jsonrpc # JStr(s_20))
    => (/\ log = <<>>
        /\ OneResponse
        /\ IsError(w.body[1], InvalidRequestCode, "Invalid Request")
        /\ w.body[1].id = MarshalIface(UnmarshalIface(Obj.id)))

\* The members of the batch in progress whose goroutine has run s.Call
MembersCalled == {k \in Members : member[k].pc \notin {"none", "call"}}
ErrorEntryFor(k) ==
    \E j \in DOMAIN WrittenArray :
        /\ WrittenArray[j].from = k
        /\ IsError(WrittenArray[j].resp, InvalidRequestCode, "Invalid Request")

\* C31: while HandleBatch serves a batch, no goroutine is started for a
\* member that fails ValidateRequest, the handlers invoked are no more than
\* the members whose goroutine has run s.Call (one invocation each), and
\* when the batch has been answered every member that failed validation has
\* its Invalid Request entry in the response array.
C31_HandlersOnlyAfterValidation ==
    (lineage = "Server" /\ hb.pc \in {"loop", "write", "done"}) =>
        /\ \A k \in DOMAIN hb.reqs :
               (~hb.reqs[k].nil /\ FailedValidation(k)) => member[k].pc = "none"
        /\ ~crashed => Len(log) <= Cardinality(MembersCalled)
        /\ BatchFinished =>
               \A k \in DOMAIN hb.reqs : FailedValidation(k) => ErrorEntryFor(k)

\* C32: a jrpc2.register call with a string name and a string url decides
\* in this order: a url without http:// or https:// prefix gives URL scheme
\* error (-32001), also when the name is registered; otherwise a registered
\* name gives Method exists (-32000); otherwise the proxy entry {URL} is
\* inserted under the name and "success" returned.  Both errors leave the
\* registry as it was.
C32_RegisterRPCOrder ==
    [][ (/\ lineage = "none"
         /\ lineage' = "Server"
         /\ WellFormedRegister(req'.body))
        => IF ~HttpURL(RegURL(req'.body))
           THEN /\ Methods' = Methods
                /\ Len(w'.body) = 1
                /\ IsError(w'.body[1], URLSchemeErrorCode, "URL scheme error")
           ELSE IF RegName(req'.body) \in DOMAIN Methods
           THEN /\ Methods' = Methods
                /\ Len(w'.body) = 1
                /\ IsError(w'.body[1], MethodExistsCode, "Method exists")
           ELSE /\ Methods' = MapSet(Methods, RegName(req'.body),
                                     ProxyMethod(RegURL(req'.body)))
                /\ Len(log') = 1
                /\ log'[1].ret = Ret(JStr(s_success), NilErr) ]_vars

\* "add" is registered, and a call to register it again under an ftp URL
\* has been answered URL scheme error
C32_Witness ==
    /\ lineage = "Server"
    /\ WellFormedRegister(req.body)
    /\ RegName(req.body) = n_add
    /\ RegURL(req.body) = u_ftp
    /\ n_add \in DOMAIN Methods
    /\ OneResponse
    /\ IsError(w.body[1], URLSchemeErrorCode, "URL scheme error")

\* A valid request for jrpc2.register whose params are an object or an
\* array that does not supply a string name and a string url
IllFormedRegister(b) ==
    /\ b.k = "object"
    /\ b.o.jsonrpc = JStr(s_20)
    /\ b.o.method = JStr(n_register)
    /\ b.o.params.t \in {"array", "object"}
    /\ ~WellFormedRegister(b)

\* C33: a jrpc2.register call whose params do not supply both a string name
\* and a string url is answered with the error Invalid params (-32602),
\* leaves the registry as it was and does not abort the handling of the
\* request.
C33_RegisterBadParams ==
    [][ (/\ lineage = "none"
         /\ lineage' = "Server"
         /\ IllFormedRegister(req'.body))
        => /\ Methods' = Methods
           /\ ~w'.aborted
           /\ Len(w'.body) = 1
           /\ IsError(w'.body[1], InvalidParamsCode, "Invalid params") ]_vars

\* One entry of the registry has exactly one of its two parts populated
ExactlyOnePart(m) == (m.Method # "nil") # (m.URL # <<>>)

\* C34: in every reachable state of the Server registry each entry has
\* either a local callable or a non-empty URL, never both and never
\* neither.
C34_EntryExactlyOnePart ==
    \A n \in DOMAIN Methods : ExactlyOnePart(Methods[n])

\* The request served by the Service is one object that decodes into the
\* RequestObject and carries a string or an integer-valued number as id
WellFormedWithValidId ==
    /\ lineage = "Service"
    /\ GoodHeaders
    /\ req.body.k = "object"
    /\ ServiceDecodeError(req.body).k = "none"
    /\ Obj.id.t = "str" \/ (Obj.id.t = "num" /\ Obj.id.f = 0)

\* C36: every error response of Service.Do to a well-formed request object
\* with a valid id carries that id, for the version error as for the
\* errors of Service.Call.
C36_ServiceErrorsEchoId ==
    (/\ WellFormedWithValidId
     /\ OneResponse
     /\ ~w.body[1].error.nil)
    => w.body[1].id = Obj.id

\* C37: no response object written by the Service has both a result and
\* an error member: when the handler returns an error object the response
\* carries the error alone, whatever result came with it.
C37_ServiceResultErrorExclusive ==
    lineage = "Service" =>
        \A k \in DOMAIN w.body :
            ~(w.body[k].result.t # "absent" /\ ~w.body[k].error.nil)

\* The first check of the stated order that the request fails, with the
\* error code and the HTTP status stated for it ("none": it passes all)
Failure(check, code, status) == [check |-> check, code |-> code, status |-> status]
FirstFailure(r) ==
    IF r.verb # "POST" THEN Failure("verb", InvalidRequestCode, 405)
    ELSE IF ToLower(r.ctype) # s_appjson THEN Failure("content-type", ParseErrorCode, 415)
    ELSE IF ToLower(r.accept) # s_appjson THEN Failure("accept", ParseErrorCode, 406)
    ELSE IF ServiceDecodeError(r.body).k # "none" THEN Failure("decode", 0, 200)
    ELSE IF r.body.o.jsonrpc # JStr(s_20) THEN Failure("version", InvalidRequestCode, 200)
    ELSE IF ~ValidIdType(r.body.o.id) /\ r.body.o.id.t # "absent"
    THEN Failure("id", InvalidIDCode, 200)
    ELSE IF r.body.o.method.t = "str" /\ HasPrefix(ToLower(r.body.o.method.s), s_rpcdot)
    THEN Failure("rpc.*", InvalidRequestCode, 200)
    ELSE IF r.body.o.method.t # "str" \/ r.body.o.method.s \notin DOMAIN ServiceMethods
    THEN Failure("lookup", MethodNotFoundCode, 200)
    ELSE Failure("none", 0, 200)
DecodeCodes == {ParseErrorCode, NotImplementedCode, InvalidMethodCode}
AnsweredAs(f) ==
    /\ log = <<>>
    /\ ~w.aborted
    /\ OneResponse
    /\ w.status = f.status
    /\ ~w.body[1].error.nil
    /\ w.body[1].result.t = "absent"
    /\ IF f.check = "decode" THEN w.body[1].error.code \in DecodeCodes
       ELSE w.body[1].error.code = f.code
Suppressed(f) ==
    /\ f.check \in {"rpc.*", "lookup"}
    /\ req.body.o.id.t \in {"absent", "null"}

InHandleBatch == lineage = "Server" /\ hb.pc \in {"loop", "write"}
\* HandleBatch has passed wg.Wait and returned; or a member handler did not
\* return (it panicked and the process ended)
BatchAnswered == hb.pc = "done"
HandlerDidNotReturn == crashed

\* C35: under fair scheduling, a HandleBatch whose member handlers all
\* return eventually passes the join and returns, whatever the batch is.
C35_BatchCompletes ==
    InHandleBatch ~> (BatchAnswered \/ HandlerDidNotReturn)

\* Two sequences of entries hold the same responses the same number of
\* times
Responses(entries) == [j \in DOMAIN entries |-> entries[j].resp]
Count(q, x) == Cardinality({j \in DOMAIN q : q[j] = x})
SameMultiset(p, q) ==
    /\ Len(p) = Len(q)
    /\ \A j \in DOMAIN p : Count(p, p[j]) = Count(q, p[j])
InSubmissionOrder(entries) ==
    \A i \in DOMAIN entries, j \in DOMAIN entries :
        i < j => entries[i].from < entries[j].from
\* a registry both lineages can hold: every entry is a function
FunctionsOnly(methods) ==
    \A n \in DOMAIN methods : methods[n].Method # "nil" /\ methods[n].URL = <<>>

\* C39: for a registry of functions and a batch that the concurrent
\* HandleBatch has answered, the entries written are, as a multiset, the
\* entries the sequential HandleBatch of the earliest lineage makes for the
\* same batch and registry, and the sequential ones are in submission order.
C39_ConcurrentMatchesSequential ==
    (BatchFinished /\ Len(hb.reqs) > 0 /\ FunctionsOnly(Methods))
    => /\ ~HandleBatchSequential(Methods, hb.reqs).aborted
       /\ SameMultiset(Responses(WrittenArray),
                       Responses(HandleBatchSequential(Methods, hb.reqs).responses))
       /\ InSubmissionOrder(HandleBatchSequential(Methods, hb.reqs).responses)

====
